---- MODULE Spec2Model ----
(***************************************************************************)
(* State-machine model of the visual-inertial smoother                     *)
(* (src/src/auv/vio/smoother.cpp) and of the orchestration layer declared  *)
(* in the state estimator header (src/unnamed/part_001).                   *)
(*                                                                         *)
(* Timestamps are whole seconds, poses / velocities / biases are small     *)
(* opaque tokens (0 is the zero velocity / zero bias constant), a graph    *)
(* key gtsam::Symbol(c, id) is the pair <<c, id>>.                         *)
(***************************************************************************)
EXTENDS Integers, Sequences, FiniteSets, TLC

\* ------------------------------------------------------------------ bounds
MaxTime == 2
MaxLmk == 2
MaxObs == 2
\* Words of a pose, a velocity or a bias in memory.
WordsPerObject == 2

Times == 0..MaxTime
LmkIds == 1..MaxLmk
\* The navigation states Initialize is called with: [P, v, b] tokens.
NavStates == {[P |-> 0, v |-> 0, b |-> 0], [P |-> 1, v |-> 1, b |-> 1]}

\* kZeroVelocity / kZeroImuBias (smoother.cpp:81-82, 130-131, 324-325).
kZeroVelocity == 0
kZeroImuBias == 0

\* Threshold of the degenerate-observation test `lmk_obs.disparity < 1.0`.
kMinDisparity == 1
Disparities == {0, 1}

\* ------------------------------------------------------------ small helpers
Symbol(c, id) == <<c, id>>

RECURSIVE SeqToSet(_)
SeqToSet(s) == IF s = <<>> THEN {} ELSE {Head(s)} \cup SeqToSet(Tail(s))

\* The conversion of an odometry timestamp to seconds. Timestamps of the model
\* are whole seconds, for which 1e-9 * t is exact.
ConvertToSeconds(t) == t

SmootherResult(id, t, P, has_imu, v, b) ==
  [keypose_id |-> id, timestamp |-> t, P_world_body |-> P,
   has_imu_state |-> has_imu, v_world_body |-> v, imu_bias |-> b]

ResultFields ==
  {"keypose_id", "timestamp", "P_world_body", "has_imu_state", "v_world_body", "imu_bias"}

\* The member result_ as the constructor leaves it (smoother.cpp:7-12 does not
\* assign it): keypose id 0, time 0, the identity pose, no IMU state, zero
\* velocity and bias. The operations read it when they run before Initialize.
DefaultResult == SmootherResult(0, 0, 0, FALSE, kZeroVelocity, kZeroImuBias)

\* No result: nothing is being assigned.
NoResult == SmootherResult(-1, -1, 0, FALSE, 0, 0)

\* A SmootherResult in memory. The keypose id, the timestamp and the flag are
\* one word each; the pose, the velocity and the bias are objects of several
\* words (gtsam::Pose3, gtsam::Vector3, ImuBias), WordsPerObject here.
MultiWordFields == {"P_world_body", "v_world_body", "imu_bias"}

WordsOf(f) == IF f \in MultiWordFields THEN WordsPerObject ELSE 1

\* The words of the value r.
Image(r) == [f \in ResultFields |-> [i \in 1..WordsOf(f) |-> r[f]]]

\* No copy: GetResult has returned nothing.
NoCopy == Image(NoResult)

\* Factors of the graph.
PriorFactor(key) == [type |-> "prior", keys |-> <<key>>, lmk |-> 0]
VoBetweenFactor(k1, k2) == [type |-> "vo_between", keys |-> <<k1, k2>>, lmk |-> 0]
ImuFactor(x1, v1, x2, v2, b1, b2) ==
  [type |-> "imu", keys |-> <<x1, v1, x2, v2, b1, b2>>, lmk |-> 0]
BiasBetweenFactor(b1, b2) == [type |-> "bias_between", keys |-> <<b1, b2>>, lmk |-> 0]
\* A smart stereo factor is shared with stereo_factors_: the graph holds the
\* pointer, the keys it observes live in stereo_factors_[lmk].
SmartFactor(lmk_id) == [type |-> "smart", keys |-> <<>>, lmk |-> lmk_id]

Value(key, src) == [key |-> key, src |-> src]

ValueKeys(new_values) == {new_values[i].key : i \in DOMAIN new_values}

\* ------------------------------------------------------------------ inputs
\* A preintegration result: absent (null pointer), present but invalid, or valid.
NullPim == [present |-> FALSE, valid |-> FALSE, to_time |-> 0]
Pim(valid, to_time) == [present |-> TRUE, valid |-> valid, to_time |-> to_time]

LandmarkObservation(id, disp) == [landmark_id |-> id, disparity |-> disp]

AllObs == {LandmarkObservation(id, d) : id \in LmkIds, d \in Disparities}

\* Observation lists of one keyframe up to MaxObs entries: lmk_obs is a
\* std::vector of observations, and nothing in the smoother keeps a landmark
\* id from occurring twice in it.
RECURSIVE ObsSeqsOfLen(_)
ObsSeqsOfLen(n) ==
  IF n = 0 THEN {<<>>}
  ELSE {Append(s, o) : s \in ObsSeqsOfLen(n - 1), o \in AllObs}

ObsSeqs == UNION {ObsSeqsOfLen(n) : n \in 0..MaxObs}

\* ------------------------------------------------------------------- state
VARIABLES
  next_kf_id_,          \* keypose id counter
  result_,              \* Smoother::result_
  smoother_,            \* the ISAM2 member: [values: set of keys, factors: sequence]
  stereo_factors_,      \* lmk id -> sequence of keypose keys the smart factor observes
  lmk_to_factor_map_,   \* lmk id -> ISAM2 factor index
  status,               \* "running", "fatal" (LOG(FATAL) / CHECK) or "threw" (exception)
  initialized,          \* Initialize has run since construction
  pcS,                  \* "idle", "write" while result_ is assigned without the lock,
                        \* "lock" while UpdateGraphNoVision is at result_lock_.lock()
  pending,              \* the value being assigned to result_ ("write"), or about to be ("lock")
  pendingStatus,        \* the status the operation ends with once result_ is assigned
  copying,              \* GetResult holds result_lock_ and copies result_: the values
                        \* result_ has held or been given since the copy began ({}: no copy)
  reader_out,           \* what GetResult returned, when it is the latest step (else NoCopy)
  commit_log,           \* history: the assignments to result_, [op, r], in commit order
  last                  \* history: what the last operation built and submitted

smootherVars ==
  <<next_kf_id_, result_, smoother_, stereo_factors_, lmk_to_factor_map_, status,
    initialized, pcS, pending, pendingStatus, copying, reader_out, commit_log, last>>

\* ============================================================ orchestration
\* The state estimator (src/unnamed/part_001): three worker threads, bounded
\* queues, the shared smoother result with its resync flag, the callbacks.
\* The header declares the loops; their bodies, and the queue, follow the
\* design document. WaitForResultOrTimeout and the keypose allocator are the
\* header's own code. The class has no function that starts the threads: they
\* run from the construction on, and the callbacks are registered meanwhile.

\* Bounds. The queue capacity and the wait timeouts are Options of the
\* estimator (max_queue_size_*, smoother_wait_vision_*), set small here.
QueueCap == 2
MaxFrames == 3
MaxFramesCallbacks == 2
MaxImu == 1
NumCallbacks == 2
WaitVisionAvailableMs == 40
WaitVisionUnavailableMs == 20
FrontendWaitMs == 20
FilterWaitMs == 20

\* static const size_t kWaitForDataMilliseconds = 100;
kWaitForDataMilliseconds == 100

Workers == {"frontend", "smoother", "filter"}

VARIABLES
  is_shutdown_,           \* the shared stop flag
  raw_stereo_queue_,      \* frames pushed by ReceiveStereo
  smoother_vo_queue_,     \* odometry results for the smoother
  filter_vo_queue_,       \* odometry results for the filter
  smoother_imu_queue_,    \* IMU samples for the smoother
  filter_imu_queue_,      \* IMU samples for the filter
  n_stereo, n_imu,        \* how many frames / samples the drivers have pushed
  pc,                     \* where each worker is in its loop
  elapsed,                \* WaitForResultOrTimeout: the double elapsed of each worker's wait
  smoother_mode,          \* SmootherMode
  smoother_result_,       \* keypose id of the committed result (-1: none yet)
  trigger_sync_filter_,   \* the resync flag
  iter_result,            \* the result of the smoother's current iteration
  stage,                  \* index in SmootherPublishOrder of the smoother's current step
  smoother_result_callbacks_,  \* the smoother callbacks, in registration order
  filter_result_callbacks_,    \* the filter callbacks, in registration order
  cb_next,                \* index of the next smoother callback to invoke
  cb_last,                \* history: the latest callback invocation and what it could observe
  filter_sync,            \* keypose id the filter last resynchronised to
  filter_result,          \* the result of the filter's current iteration (its IMU sample)
  filter_cb_next,         \* index of the next filter callback to invoke
  filter_cb_last,         \* history: the latest filter callback invocation
  flag_set_since_commit,  \* history: the flag was set after the latest commit
  buf,                    \* BlockUntilFinished: [state, awaited] (the stereo pairs awaited)
  consumed,               \* the awaited stereo pairs the frontend has dequeued
  polls_after_stop        \* history: sleeps each worker began after the stop flag was set

estVars ==
  <<is_shutdown_, raw_stereo_queue_, smoother_vo_queue_, filter_vo_queue_,
    smoother_imu_queue_, filter_imu_queue_, n_stereo, n_imu, pc, elapsed,
    smoother_mode, smoother_result_, trigger_sync_filter_, iter_result, stage,
    cb_next, cb_last, filter_sync, filter_result, filter_cb_next,
    filter_cb_last, flag_set_since_commit, buf, consumed, polls_after_stop,
    smoother_result_callbacks_, filter_result_callbacks_>>

callbackVars == <<smoother_result_callbacks_, filter_result_callbacks_>>

\* ------------------------------------------------------------ bounded wait
\* One call of WaitForResultOrTimeout(queue, timeout_sec) on its own, and the
\* thread that pushes to the queue meanwhile.
MaxWaitTimeoutMs == 70
WaitTimeoutStepMs == 10

VARIABLES
  w_queue,        \* the queue the call is given
  w_timeout,      \* timeout_sec, in milliseconds
  w_elapsed,      \* double elapsed
  w_pc,           \* "idle", "check" (at the loop condition), "sleep", "returned"
  w_ret,          \* the value returned
  w_hist          \* history: the sleeps, and after how many of them an item arrived

waitVars == <<w_queue, w_timeout, w_elapsed, w_pc, w_ret, w_hist>>

\* ------------------------------------------------------------- mesher node
\* ObjectMesherLcm (smoother.cpp:363-463): the handler of stereo messages.
MaxMsgs == 3
MaxImageDim == 3
\* Params::mesher_input_height, scaled to the image sizes of the model.
mesher_input_height == 2

VARIABLES
  mesher_status,  \* "running", "fatal" (CHECK_EQ / LOG(FATAL)) or "threw" (exception)
  mesh_out,       \* the headers of the mesh messages published, in order
  n_msgs,         \* stereo messages handled
  stereo_msg      \* history: the message handled last

mesherVars == <<mesher_status, mesh_out, n_msgs, stereo_msg>>

auxVars == <<waitVars, mesherVars>>

EmptyMap == [x \in {} |-> 0]

EmptyISAM2 == [values |-> {}, factors |-> <<>>]

StereoFrontendResult(timestamp, timestamp_lkf, is_keyframe, lmk_obs) ==
  [timestamp |-> timestamp, timestamp_lkf |-> timestamp_lkf,
   is_keyframe |-> is_keyframe, lmk_obs |-> lmk_obs]

\* The history's entry for an operation that takes no odometry result.
NoOdom == StereoFrontendResult(-1, -1, FALSE, <<>>)

NoOp ==
  [op |-> "none", submitted |-> FALSE, new_factors |-> <<>>, new_values |-> <<>>,
   affected |-> EmptyMap, new_id |-> -1, last_id |-> -1, vo_aligned |-> FALSE,
   pim_valid |-> FALSE, odom |-> NoOdom, sf_before |-> EmptyMap, map_before |-> EmptyMap,
   isam_before |-> EmptyISAM2, result_before |-> DefaultResult, next_before |-> 0]

\* ------------------------------------------------------- keypose allocator
GetNextKeyposeIdSkips(n) == [id |-> n + 1, next |-> n + 1]

\* uid_t GetNextKeyposeId() { return next_kf_id_++; }
GetNextKeyposeId(n) == [id |-> n, next |-> n + 1]

GetPrevKeyposeIdMinusTwo(n) == n - 2

\* The largest uid_t, 2^64 - 1 (uid_t is the unsigned 64-bit index of a
\* gtsam::Symbol), as four 16-bit limbs, least significant first: the number is
\* beyond the integers of the model.
kUidMax == <<65535, 65535, 65535, 65535>>

\* uid_t GetPrevKeyposeId() { return next_kf_id_ - 1; }
\* The subtraction is unsigned: with no id allocated yet it wraps around.
GetPrevKeyposeId(n) == IF n = 0 THEN kUidMax ELSE n - 1

\* ResetKeyposeId(), called first thing by Initialize, with ResetISAM2() and
\* ahead of "Clear out any members that store state": the counter restarts.
ResetKeyposeId(n) == 0

\* ------------------------------------------------------------ ISAM2 backend
\* Smoother::ResetISAM2 assigns the fresh ISAM2 to a local variable that
\* shadows the member, so the member smoother_ is left as it was.
ResetISAM2(isam) == isam

\* ISAM2::update(new_factors, new_values): inserting a value under a key the
\* graph already holds throws; otherwise the values and factors are added and
\* the i-th new factor (from 0) gets factor index |factors before| + i.
ISAM2Update(isam, new_factors, new_values) ==
  LET threw == ValueKeys(new_values) \cap isam.values # {}
  IN [threw |-> threw,
      isam |-> IF threw THEN isam
               ELSE [values |-> isam.values \cup ValueKeys(new_values),
                     factors |-> isam.factors \o new_factors],
      newFactorsIndices |-> [k \in 0..(Len(new_factors) - 1) |-> Len(isam.factors) + k]]

\* smoother_.calculateBestEstimate().at(key): the optimum is a function of the
\* graph. Tokens 0 and 1 are the constants and the caller's values; the
\* token of an estimate, 2 or more, tells the graph it was computed from.
BestEstimate(isam, key) == 2 + Len(isam.factors)

\* ------------------------------------------------------------ AddImuFactors
\* new_values.insert(key, value): gtsam::Values::insert throws when the key is
\* already among the values, and what follows the insert is not run.
ValuesInsert(st, key, src) ==
  IF st.threw THEN st
  ELSE IF key \in ValueKeys(st.new_values) THEN [st EXCEPT !.threw = TRUE]
  ELSE [st EXCEPT !.new_values = Append(@, Value(key, src))]

AddImuFactorsNoPrediction(keypose_id, pim_result, last_smoother_result, predict_keypose_value, new_values, new_factors) ==
  LET vel_sym == Symbol("V", keypose_id)
      bias_sym == Symbol("B", keypose_id)
      last_keypose_id == last_smoother_result.keypose_id
  IN [fatal |-> ~pim_result.valid, threw |-> FALSE,
      new_values |-> new_values \o <<Value(Symbol("X", keypose_id), "last_pose"),
                                     Value(vel_sym, "imu_pred"), Value(bias_sym, "last_bias")>>,
      new_factors |-> new_factors \o
        <<ImuFactor(Symbol("X", last_keypose_id), Symbol("V", last_keypose_id),
                    Symbol("X", keypose_id), vel_sym,
                    Symbol("B", last_keypose_id), bias_sym)>>]

\* static void AddImuFactors(keypose_id, pim_result, last_smoother_result,
\*                           predict_keypose_value, new_values, new_factors, params)
\* The result tells how the call ends (CHECK failed, an insert threw) and what
\* new_values and new_factors hold by then.
AddImuFactors(keypose_id, pim_result, last_smoother_result, predict_keypose_value, new_values, new_factors) ==
  LET keypose_sym == Symbol("X", keypose_id)
      vel_sym == Symbol("V", keypose_id)
      bias_sym == Symbol("B", keypose_id)
      last_keypose_id == last_smoother_result.keypose_id
      last_keypose_sym == Symbol("X", last_keypose_id)
      last_vel_sym == Symbol("V", last_keypose_id)
      last_bias_sym == Symbol("B", last_keypose_id)
      seeds_last == ~last_smoother_result.has_imu_state
      nv0 == [threw |-> FALSE, new_values |-> new_values]
      nv1 == IF predict_keypose_value THEN ValuesInsert(nv0, keypose_sym, "imu_pred") ELSE nv0
      nv2 == ValuesInsert(ValuesInsert(nv1, vel_sym, "imu_pred"), bias_sym, "last_bias")
      nv3 == IF seeds_last
             THEN ValuesInsert(ValuesInsert(nv2, last_vel_sym, "zero"), last_bias_sym, "zero")
             ELSE nv2
      nf1 == IF seeds_last
             THEN new_factors \o <<PriorFactor(last_vel_sym), PriorFactor(last_bias_sym)>>
             ELSE new_factors
      nf2 == nf1 \o <<ImuFactor(last_keypose_sym, last_vel_sym, keypose_sym, vel_sym,
                                last_bias_sym, bias_sym),
                      BiasBetweenFactor(last_bias_sym, bias_sym)>>
  IN IF ~pim_result.valid
     THEN \* CHECK(pim_result.valid)
          [fatal |-> TRUE, threw |-> FALSE, new_values |-> new_values,
           new_factors |-> new_factors]
     ELSE [fatal |-> FALSE, threw |-> nv3.threw, new_values |-> nv3.new_values,
           new_factors |-> IF nv3.threw THEN new_factors ELSE nf2]

\* ---------------------------------------------------- the landmark loop
\* One pass of the loop over odom_result.lmk_obs (smoother.cpp:258-288). acc
\* carries stereo_factors_, new_factors, map_new_factor_to_lmk_id,
\* factorNewAffectedKeys and whether lmk_to_factor_map_.at() threw.
SkipsObservationNever(lmk_obs) == FALSE

\* if (lmk_obs.disparity < 1.0) continue;
SkipsObservation(lmk_obs) == lmk_obs.disparity < kMinDisparity

LmkStep(acc, lmk_obs, keypose_sym, lmk_map) ==
  LET lmk_id == lmk_obs.landmark_id IN
  IF acc.threw \/ SkipsObservation(lmk_obs) THEN acc
  ELSE IF lmk_id \notin DOMAIN acc.sf
  THEN \* NEW SMART FACTOR
       [acc EXCEPT !.sf = (lmk_id :> <<keypose_sym>>) @@ acc.sf,
                   !.new_to_lmk = (Len(acc.nf) :> lmk_id) @@ acc.new_to_lmk,
                   !.nf = Append(acc.nf, SmartFactor(lmk_id))]
  ELSE IF lmk_id \notin DOMAIN lmk_map
  THEN \* lmk_to_factor_map_.at(lmk_id) throws std::out_of_range
       [acc EXCEPT !.threw = TRUE]
  ELSE \* UPDATE SMART FACTOR
       LET fidx == lmk_map[lmk_id]
           old == IF fidx \in DOMAIN acc.affected THEN acc.affected[fidx] ELSE {}
       IN [acc EXCEPT !.affected = (fidx :> (old \cup {keypose_sym})) @@ acc.affected,
                      !.sf = (lmk_id :> Append(acc.sf[lmk_id], keypose_sym)) @@ acc.sf]

RECURSIVE LmkLoop(_, _, _, _)
LmkLoop(acc, obs, keypose_sym, lmk_map) ==
  IF obs = <<>> THEN acc
  ELSE LmkLoop(LmkStep(acc, Head(obs), keypose_sym, lmk_map), Tail(obs), keypose_sym, lmk_map)

\* ------------------------------------------------------------- the history
\* What an operation did, from the state it started in.
LastOp(op, submitted, new_factors, new_values, new_id, vo_aligned, pim_valid, odom, affected) ==
  [op |-> op, submitted |-> submitted, new_factors |-> new_factors, affected |-> affected,
   new_values |-> new_values, new_id |-> new_id,
   last_id |-> result_.keypose_id, vo_aligned |-> vo_aligned, pim_valid |-> pim_valid,
   odom |-> odom, sf_before |-> stereo_factors_, map_before |-> lmk_to_factor_map_,
   isam_before |-> smoother_, result_before |-> result_, next_before |-> next_kf_id_]

\* An operation that ends without assigning result_.
EndsWithoutResult(st) ==
  /\ status' = st
  /\ reader_out' = NoCopy
  /\ UNCHANGED <<result_, pcS, pending, pendingStatus, copying, commit_log>>

\* result_lock_.lock(): the graph is updated and the estimate r computed; the
\* writer now waits for the lock, which a GetResult may hold.
WaitsForResultLock(r) ==
  /\ pcS' = "lock"
  /\ pending' = r
  /\ pendingStatus' = "running"
  /\ reader_out' = NoCopy
  /\ UNCHANGED <<result_, commit_log, status, copying>>

\* result_ = SmootherResult(...) without the lock: the assignment is in progress
\* until FinishWrite, and GetResult can run in between; a copy under way
\* meets the words of the new value.
WritesResultUnlocked(r, st) ==
  /\ pcS' = "write"
  /\ pending' = r
  /\ pendingStatus' = st
  /\ copying' = IF copying = {} THEN {} ELSE copying \cup {r}
  /\ reader_out' = NoCopy
  /\ UNCHANGED <<result_, commit_log, status>>

\* --------------------------------------------------------------- Initialize
InitializeBatch(id0, imu_available) ==
  LET P0_sym == Symbol("X", id0)
      V0_sym == Symbol("V", id0)
      B0_sym == Symbol("B", id0)
  IN [new_factors |-> <<PriorFactor(P0_sym)>> \o
                      (IF imu_available
                       THEN <<PriorFactor(V0_sym), PriorFactor(B0_sym)>> ELSE <<>>),
      new_values |-> <<Value(P0_sym, "init")>> \o
                     (IF imu_available
                      THEN <<Value(V0_sym, "init"), Value(B0_sym, "init")>> ELSE <<>>)]

Initialize(timestamp, P_world_body, v_world_body, imu_bias, imu_available) ==
  /\ status = "running" /\ pcS = "idle"
  /\ LET a == GetNextKeyposeId(ResetKeyposeId(next_kf_id_))
         isam0 == ResetISAM2(smoother_)
         batch == InitializeBatch(a.id, imu_available)
         up == ISAM2Update(isam0, batch.new_factors, batch.new_values)
     IN /\ next_kf_id_' = a.next
        /\ lmk_to_factor_map_' = EmptyMap
        /\ stereo_factors_' = EmptyMap
        /\ smoother_' = up.isam
        /\ initialized' = TRUE
        /\ last' = LastOp("Initialize", TRUE, batch.new_factors, batch.new_values,
                          a.id, FALSE, FALSE, NoOdom, EmptyMap)
        /\ WritesResultUnlocked(
             SmootherResult(a.id, timestamp, P_world_body, imu_available,
                            v_world_body, imu_bias),
             IF up.threw THEN "threw" ELSE "running")

\* ------------------------------------------------------ UpdateGraphNoVision
\* The function up to result_lock_.lock() (smoother.cpp:149-189).
UpdateGraphNoVision(pim_result) ==
  /\ status = "running" /\ pcS = "idle"
  /\ UNCHANGED <<stereo_factors_, lmk_to_factor_map_, initialized>>
  /\ IF ~pim_result.valid
     THEN \* CHECK(pim_result.valid)
          /\ last' = LastOp("UpdateGraphNoVision", FALSE, <<>>, <<>>, -1, FALSE, FALSE, NoOdom,
                            EmptyMap)
          /\ UNCHANGED <<next_kf_id_, smoother_>>
          /\ EndsWithoutResult("fatal")
     ELSE LET a == GetNextKeyposeId(next_kf_id_)
              imu == AddImuFactors(a.id, pim_result, result_, TRUE, <<>>, <<>>)
              up == ISAM2Update(smoother_, imu.new_factors, imu.new_values)
              threw == imu.threw \/ up.threw
          IN /\ next_kf_id_' = a.next
             /\ last' = LastOp("UpdateGraphNoVision", ~imu.threw,
                               imu.new_factors, imu.new_values, a.id, FALSE, TRUE, NoOdom,
                               EmptyMap)
             /\ IF threw
                THEN UNCHANGED smoother_ /\ EndsWithoutResult("threw")
                ELSE /\ smoother_' = up.isam
                     /\ WaitsForResultLock(
                          SmootherResult(a.id, pim_result.to_time,
                                         BestEstimate(up.isam, Symbol("X", a.id)), TRUE,
                                         BestEstimate(up.isam, Symbol("V", a.id)),
                                         BestEstimate(up.isam, Symbol("B", a.id))))

\* ---------------------------------------------------- UpdateGraphWithVision
VoIsAlignedAlways(result_timestamp, odom_result) == TRUE

\* const bool vo_is_aligned =
\*     (result_.timestamp == ConvertToSeconds(odom_result.timestamp_lkf));
VoIsAligned(result_timestamp, odom_result) ==
  result_timestamp = ConvertToSeconds(odom_result.timestamp_lkf)

\* if (pim_result_ptr && pim_result_ptr->valid)
HasValidPim(pim_result_ptr) == pim_result_ptr.present /\ pim_result_ptr.valid

SafetyCheckFailsNever(graph_has_vo_btw_factor, graph_has_imu_btw_factor) == FALSE

\* if (!graph_has_vo_btw_factor && !graph_has_imu_btw_factor) LOG(FATAL)
SafetyCheckFails(graph_has_vo_btw_factor, graph_has_imu_btw_factor) ==
  ~graph_has_vo_btw_factor /\ ~graph_has_imu_btw_factor

\* The batch built before the safety check (smoother.cpp:220-294). An
\* exception of the landmark loop (line 279) or of AddImuFactors leaves the
\* function there: the batch is what was built by then.
VisionBatch(keypose_id, odom_result, pim_result_ptr) ==
  LET keypose_sym == Symbol("X", keypose_id)
      last_keypose_sym == Symbol("X", result_.keypose_id)
      vo_is_aligned == VoIsAligned(result_.timestamp, odom_result)
      nv0 == IF vo_is_aligned THEN <<Value(keypose_sym, "vo")>> ELSE <<>>
      nf0 == IF vo_is_aligned
             THEN <<VoBetweenFactor(last_keypose_sym, keypose_sym)>> ELSE <<>>
      acc == LmkLoop([sf |-> stereo_factors_, nf |-> nf0, new_to_lmk |-> EmptyMap,
                      affected |-> EmptyMap, threw |-> FALSE],
                     odom_result.lmk_obs, keypose_sym, lmk_to_factor_map_)
      has_imu == ~acc.threw /\ HasValidPim(pim_result_ptr)
      imu == IF has_imu
             THEN AddImuFactors(keypose_id, pim_result_ptr, result_, ~vo_is_aligned,
                                nv0, acc.nf)
             ELSE [fatal |-> FALSE, threw |-> FALSE, new_values |-> nv0,
                   new_factors |-> acc.nf]
  IN [graph_has_vo_btw_factor |-> vo_is_aligned,
      graph_has_imu_btw_factor |-> has_imu /\ ~imu.threw,
      lmk_threw |-> acc.threw,
      imu_threw |-> imu.threw,
      sf |-> acc.sf,
      new_to_lmk |-> acc.new_to_lmk,
      affected |-> acc.affected,
      new_values |-> imu.new_values,
      new_factors |-> imu.new_factors]

\* for (fct_to_lmk : map_new_factor_to_lmk_id)
\*   lmk_to_factor_map_[fct_to_lmk.second] = newFactorsIndices.at(fct_to_lmk.first);
Housekeeping(new_to_lmk, newFactorsIndices, lmk_map) ==
  LET new_lmks == {new_to_lmk[k] : k \in DOMAIN new_to_lmk}
      PosOf(l) == CHOOSE k \in DOMAIN new_to_lmk :
                    /\ new_to_lmk[k] = l
                    /\ \A k2 \in DOMAIN new_to_lmk : new_to_lmk[k2] = l => k2 <= k
  IN [l \in new_lmks |-> newFactorsIndices[PosOf(l)]] @@ lmk_map

UpdateGraphWithVision(odom_result, pim_result_ptr) ==
  /\ status = "running" /\ pcS = "idle"
  /\ UNCHANGED initialized
  /\ IF ~odom_result.is_keyframe \/ Len(odom_result.lmk_obs) = 0
     THEN \* CHECK(odom_result.is_keyframe), CHECK(odom_result.lmk_obs.size() > 0)
          /\ last' = LastOp("UpdateGraphWithVision", FALSE, <<>>, <<>>, -1, FALSE, FALSE,
                            odom_result, EmptyMap)
          /\ UNCHANGED <<next_kf_id_, smoother_, stereo_factors_, lmk_to_factor_map_>>
          /\ EndsWithoutResult("fatal")
     ELSE
       LET a == GetNextKeyposeId(next_kf_id_)
           b == VisionBatch(a.id, odom_result, pim_result_ptr)
           up == ISAM2Update(smoother_, b.new_factors, b.new_values)
           fatal == SafetyCheckFails(b.graph_has_vo_btw_factor, b.graph_has_imu_btw_factor)
           threw_before == b.lmk_threw \/ b.imu_threw
           has_imu == b.graph_has_imu_btw_factor
       IN /\ next_kf_id_' = a.next
          /\ stereo_factors_' = b.sf
          /\ last' = LastOp("UpdateGraphWithVision", ~threw_before /\ ~fatal,
                            b.new_factors, b.new_values, a.id,
                            b.graph_has_vo_btw_factor, HasValidPim(pim_result_ptr),
                            odom_result, b.affected)
          /\ IF threw_before
             THEN UNCHANGED <<smoother_, lmk_to_factor_map_>> /\ EndsWithoutResult("threw")
             ELSE IF fatal
             THEN UNCHANGED <<smoother_, lmk_to_factor_map_>> /\ EndsWithoutResult("fatal")
             ELSE IF up.threw
             THEN UNCHANGED <<smoother_, lmk_to_factor_map_>> /\ EndsWithoutResult("threw")
             ELSE /\ smoother_' = up.isam
                  /\ lmk_to_factor_map_' =
                       Housekeeping(b.new_to_lmk, up.newFactorsIndices, lmk_to_factor_map_)
                  /\ WritesResultUnlocked(
                       SmootherResult(a.id, ConvertToSeconds(odom_result.timestamp),
                                      BestEstimate(up.isam, Symbol("X", a.id)), has_imu,
                                      IF has_imu
                                      THEN BestEstimate(up.isam, Symbol("V", a.id))
                                      ELSE kZeroVelocity,
                                      IF has_imu
                                      THEN BestEstimate(up.isam, Symbol("B", a.id))
                                      ELSE kZeroImuBias),
                       "running")

\* ------------------------------------------------- the end of an assignment
\* The assignment to result_ started by Initialize or UpdateGraphWithVision is
\* complete; an Initialize whose ISAM2 update throws does so after it.
FinishWrite ==
  /\ status = "running" /\ pcS = "write"
  /\ result_' = pending
  /\ commit_log' = Append(commit_log, [op |-> last.op, r |-> pending])
  /\ status' = pendingStatus
  /\ pcS' = "idle"
  /\ reader_out' = NoCopy
  /\ UNCHANGED <<next_kf_id_, smoother_, stereo_factors_, lmk_to_factor_map_, initialized,
                 pending, pendingStatus, copying, last>>
  /\ UNCHANGED <<estVars, auxVars>>

\* result_lock_.lock(); result_ = SmootherResult(...); result_lock_.unlock();
\* return result_; the writer gets the lock when no GetResult holds it, and
\* a GetResult sees the old value or the new one.
WritesResultLocked ==
  /\ status = "running" /\ pcS = "lock"
  /\ copying = {}
  /\ result_' = pending
  /\ commit_log' = Append(commit_log, [op |-> last.op, r |-> pending])
  /\ status' = pendingStatus
  /\ pcS' = "idle"
  /\ reader_out' = NoCopy
  /\ UNCHANGED <<next_kf_id_, smoother_, stereo_factors_, lmk_to_factor_map_, initialized,
                 pending, pendingStatus, copying, last>>
  /\ UNCHANGED <<estVars, auxVars>>

\* ---------------------------------------------------------------- GetResult
\* const SmootherResult out = result_; while other threads assign to result_
\* without synchronisation. The copy reads word after word, the assignments
\* write word after word: each word of the copy is that word of one of the
\* values result_ held, or was being given, while the copy was taken.
RacyCopies(values) ==
  LET WordsSeen(f) == [1..WordsOf(f) -> {r[f] : r \in values}]
  IN [keypose_id : WordsSeen("keypose_id"), timestamp : WordsSeen("timestamp"),
      P_world_body : WordsSeen("P_world_body"), has_imu_state : WordsSeen("has_imu_state"),
      v_world_body : WordsSeen("v_world_body"), imu_bias : WordsSeen("imu_bias")]

\* SmootherResult Smoother::GetResult(): result_lock_.lock(), and the copy
\* begins. The writers that do not take result_lock_ are not excluded by it:
\* an assignment may be under way.
GetResultBegin ==
  /\ status = "running" /\ copying = {}
  /\ copying' = {result_} \cup (IF pcS = "write" THEN {pending} ELSE {})
  /\ reader_out' = NoCopy
  /\ UNCHANGED <<next_kf_id_, result_, smoother_, stereo_factors_, lmk_to_factor_map_,
                 status, initialized, pcS, pending, pendingStatus, commit_log, last>>
  /\ UNCHANGED <<estVars, auxVars>>

\* The copy is complete: result_lock_.unlock(); return out;
GetResultReturn ==
  /\ status = "running" /\ copying # {}
  /\ reader_out' \in RacyCopies(copying)
  /\ copying' = {}
  /\ UNCHANGED <<next_kf_id_, result_, smoother_, stereo_factors_, lmk_to_factor_map_,
                 status, initialized, pcS, pending, pendingStatus, commit_log, last>>
  /\ UNCHANGED <<estVars, auxVars>>

\* ------------------------------------------------- the smoother's behaviours
SmootherInit ==
  /\ next_kf_id_ = 0
  /\ result_ = DefaultResult
  /\ smoother_ = ResetISAM2(EmptyISAM2)
  /\ stereo_factors_ = EmptyMap
  /\ lmk_to_factor_map_ = EmptyMap
  /\ status = "running"
  /\ initialized = FALSE
  /\ pcS = "idle"
  /\ pending = NoResult
  /\ pendingStatus = "running"
  /\ copying = {}
  /\ reader_out = NoCopy
  /\ commit_log = <<>>
  /\ last = NoOp

\* Sensor time moves forward: a keyframe or a preintegration ends after the
\* last keypose, and the keyframe a frame is relative to precedes it.
LaterTimes == {t \in Times : t > result_.timestamp}

DoInitialize ==
  \E timestamp \in {t \in Times : t >= result_.timestamp}, nav \in NavStates,
     imu_available \in BOOLEAN :
       /\ Initialize(timestamp, nav.P, nav.v, nav.b, imu_available)
       /\ UNCHANGED <<estVars, auxVars>>

DoUpdateGraphNoVision ==
  \E pim \in {Pim(FALSE, 0)} \cup {Pim(TRUE, t) : t \in LaterTimes} :
    UpdateGraphNoVision(pim) /\ UNCHANGED <<estVars, auxVars>>

DoUpdateGraphWithVision ==
  \E timestamp \in LaterTimes, is_keyframe \in BOOLEAN, lmk_obs \in ObsSeqs :
    \E timestamp_lkf \in {t \in Times : t < timestamp},
       pim \in {NullPim, Pim(FALSE, 0), Pim(TRUE, timestamp)} :
      /\ UpdateGraphWithVision(
           StereoFrontendResult(timestamp, timestamp_lkf, is_keyframe, lmk_obs), pim)
      /\ UNCHANGED <<estVars, auxVars>>

\* Initialize at one navigation state, with the IMU available or not.
DoInitializeOneNavState ==
  \E timestamp \in {t \in Times : t >= result_.timestamp}, imu_available \in BOOLEAN :
    /\ Initialize(timestamp, 1, 1, 1, imu_available)
    /\ UNCHANGED <<estVars, auxVars>>

\* UpdateGraphWithVision with a keyframe that observes one landmark, and a
\* preintegration result or none.
DoUpdateGraphWithVisionOneLandmark ==
  \E timestamp \in LaterTimes : \E pim \in {NullPim, Pim(TRUE, timestamp)} :
    /\ UpdateGraphWithVision(
         StereoFrontendResult(timestamp, timestamp - 1, TRUE,
                              <<LandmarkObservation(1, 1)>>), pim)
    /\ UNCHANGED <<estVars, auxVars>>

vars == <<smootherVars, estVars, auxVars>>

\* ============================================================ orchestration
\* --------------------------------------------------------- bounded queue
QueuePushDropsNewest(q, item) ==
  IF Len(q) >= QueueCap THEN Append(SubSeq(q, 1, Len(q) - 1), item) ELSE Append(q, item)

\* Push: at capacity the oldest entry is dropped, then the item is stored.
QueuePush(q, item) ==
  IF Len(q) >= QueueCap THEN Append(Tail(q), item) ELSE Append(q, item)

QueueEmpty(q) == Len(q) = 0

\* ------------------------------------------------- double-precision numbers
\* IEEE-754 binary64 arithmetic on the non-negative values below 512 that are
\* whole multiples of 2^-63, computed exactly: a number is its count of units
\* of 2^-63, written as four limbs of 20 bits, the lowest first. Every double
\* from 2^-10 to 512 is such a number.
kLimb == 1048576

BigZero == <<0, 0, 0, 0>>

\* 1.0: 2^63 units.
BigOne == <<0, 0, 0, 8>>

BigAdd(a, b) ==
  LET s1 == a[1] + b[1]
      s2 == a[2] + b[2] + s1 \div kLimb
      s3 == a[3] + b[3] + s2 \div kLimb
      s4 == a[4] + b[4] + s3 \div kLimb
  IN <<s1 % kLimb, s2 % kLimb, s3 % kLimb, s4>>

\* a * k for a whole number k below 2048.
BigTimes(a, k) ==
  LET p1 == a[1] * k
      p2 == a[2] * k + p1 \div kLimb
      p3 == a[3] * k + p2 \div kLimb
      p4 == a[4] * k + p3 \div kLimb
  IN <<p1 % kLimb, p2 % kLimb, p3 % kLimb, p4>>

\* Quotient and remainder of a by a whole number d below 2048.
BigDivMod(a, d) ==
  LET c4 == a[4]
      c3 == (c4 % d) * kLimb + a[3]
      c2 == (c3 % d) * kLimb + a[2]
      c1 == (c2 % d) * kLimb + a[1]
  IN [quot |-> <<c1 \div d, c2 \div d, c3 \div d, c4 \div d>>, rem |-> c1 % d]

BigLess(a, b) ==
  \E i \in 1..4 : a[i] < b[i] /\ \A j \in (i + 1)..4 : a[j] = b[j]

RECURSIVE BitLength(_)
BitLength(n) == IF n = 0 THEN 0 ELSE 1 + BitLength(n \div 2)

BigBitLength(a) ==
  IF a[4] # 0 THEN 60 + BitLength(a[4])
  ELSE IF a[3] # 0 THEN 40 + BitLength(a[3])
  ELSE IF a[2] # 0 THEN 20 + BitLength(a[2])
  ELSE BitLength(a[1])

RECURSIVE Pow2(_)
Pow2(n) == IF n = 0 THEN 1 ELSE 2 * Pow2(n - 1)

\* The double nearest to a (plus a fraction of a unit if inexact is set), ties
\* to the even significand: the rounding of every double operation. The bits
\* below the 53 leading ones lie in the lowest limb for the values below 512.
RoundToDouble(a, inexact) ==
  LET dropped == BigBitLength(a) - 53
  IN IF dropped <= 0 THEN a
     ELSE LET ulp == Pow2(dropped)
              low == a[1] % ulp
              odd == (a[1] \div ulp) % 2 = 1
              up == \/ 2 * low > ulp
                    \/ 2 * low = ulp /\ (inexact \/ odd)
          IN BigAdd(<<a[1] - low, a[2], a[3], a[4]>>, IF up THEN <<ulp, 0, 0, 0>> ELSE BigZero)

\* static_cast<double>(n) of a whole number n below 2^17.
DoubleOfInt(n) == <<0, 0, 0, 8 * n>>

\* The double nearest to p / q, q below 2048: the quotient of the doubles p
\* and q, and what the decimal literal p / q (q a power of ten) denotes.
DoubleOfRatio(p, q) ==
  LET d == BigDivMod(DoubleOfInt(p), q) IN RoundToDouble(d.quot, d.rem # 0)

\* static_cast<int>(x): the fraction is dropped.
DoubleToInt(x) == x[4] \div 8

\* x * k in double arithmetic, k a whole number.
DoubleTimesInt(x, k) == RoundToDouble(BigTimes(x, k), FALSE)

\* x + y in double arithmetic.
DoubleAdd(x, y) == RoundToDouble(BigAdd(x, y), FALSE)

\* x < y
DoubleLess(x, y) == BigLess(x, y)

\* -------------------------------------------------- WaitForResultOrTimeout
\* The timeouts a call on its own is given: short ones, multiples of the poll
\* interval and not, and one at the threshold of the comparison timeout_sec <
\* kWaitForDataMilliseconds, from which on the poll interval is the long one.
WaitTimeouts ==
  {t \in 0..MaxWaitTimeoutMs : t % WaitTimeoutStepMs = 0} \cup {kWaitForDataMilliseconds * 1000}

\* The timeouts of the model, in milliseconds.
TimeoutsMs ==
  WaitTimeouts \cup {FrontendWaitMs, WaitVisionAvailableMs, WaitVisionUnavailableMs, FilterWaitMs}

\* double timeout_sec: the double a timeout of t milliseconds is passed as.
TimeoutSec == [t \in TimeoutsMs |-> DoubleOfRatio(t, 1000)]

\* const size_t ms_each_wait = (timeout_sec < kWaitForDataMilliseconds) ?
\*                              kWaitForDataMilliseconds / 5 : kWaitForDataMilliseconds;
MsEachWait(timeout_ms) ==
  IF DoubleLess(TimeoutSec[timeout_ms], DoubleOfInt(kWaitForDataMilliseconds))
  THEN kWaitForDataMilliseconds \div 5 ELSE kWaitForDataMilliseconds

\* static_cast<double>(1e-3 * ms_each_wait), for the two values of ms_each_wait.
SleepSec ==
  [ms \in {kWaitForDataMilliseconds \div 5, kWaitForDataMilliseconds} |->
     DoubleTimesInt(DoubleOfRatio(1, 1000), ms)]

\* while (queue.Empty() && elapsed < timeout_sec) { sleep_for(ms_each_wait); ... }
\* The function is given the queue and the timeout, and not the stop flag.
WaitSleeps(queue, elapsed_sec, timeout_ms) ==
  QueueEmpty(queue) /\ DoubleLess(elapsed_sec, TimeoutSec[timeout_ms])

\* elapsed += static_cast<double>(1e-3 * ms_each_wait);
ElapsedAfterSleep(elapsed_sec, timeout_ms) ==
  DoubleAdd(elapsed_sec, SleepSec[MsEachWait(timeout_ms)])

\* return elapsed >= timeout_sec;
WaitReturns(elapsed_sec, timeout_ms) == ~DoubleLess(elapsed_sec, TimeoutSec[timeout_ms])

\* The queue a worker waits on.
WaitQueue(w) ==
  CASE w = "frontend" -> raw_stereo_queue_
    [] w = "smoother" -> smoother_vo_queue_
    [] w = "filter" -> filter_imu_queue_

WaitTimeoutSwapped(w) ==
  CASE w = "frontend" -> FrontendWaitMs
    [] w = "smoother" -> IF smoother_mode = "VISION_AVAILABLE"
                         THEN WaitVisionUnavailableMs ELSE WaitVisionAvailableMs
    [] w = "filter" -> FilterWaitMs

\* The timeout a worker waits with: the smoother's depends on its mode.
WaitTimeout(w) ==
  CASE w = "frontend" -> FrontendWaitMs
    [] w = "smoother" -> IF smoother_mode = "VISION_AVAILABLE"
                         THEN WaitVisionAvailableMs ELSE WaitVisionUnavailableMs
    [] w = "filter" -> FilterWaitMs

\* A worker's wait is over: WaitForResultOrTimeout leaves its loop.
WaitOver(w) == ~WaitSleeps(WaitQueue(w), elapsed[w], WaitTimeout(w))

\* The value the wait then returns, as the loops read it: it ran out of time.
DidTimeout(w) == WaitReturns(elapsed[w], WaitTimeout(w))

\* ---------------------------------------------------------------- helpers
smootherRest ==
  <<result_, smoother_, stereo_factors_, lmk_to_factor_map_, initialized, pcS, pending,
    pendingStatus, copying, reader_out, commit_log, last>>

NoItems == {}

OdometryResult(n, is_keyframe) == [n |-> n, is_keyframe |-> is_keyframe]

NoCallback == [cb |-> 0, r |-> -1, committed |-> -1, flag_set |-> FALSE]

\* ------------------------------------------------------------ sensor input
\* ReceiveStereo: push the frame on the raw queue, never blocking.
ReceiveStereo ==
  /\ status = "running" /\ n_stereo < MaxFrames
  /\ n_stereo' = n_stereo + 1
  /\ raw_stereo_queue_' = QueuePush(raw_stereo_queue_, n_stereo + 1)
  /\ UNCHANGED <<is_shutdown_, smoother_vo_queue_, filter_vo_queue_, smoother_imu_queue_,
                 filter_imu_queue_, n_imu, pc, elapsed, smoother_mode,
                 smoother_result_, trigger_sync_filter_, iter_result, stage, cb_next,
                 cb_last, filter_sync, filter_result, filter_cb_next, filter_cb_last, flag_set_since_commit, buf, consumed,
                 polls_after_stop>>
  /\ UNCHANGED <<next_kf_id_, status, smootherRest, callbackVars, auxVars>>

\* ReceiveImu: push the sample on the smoother's and on the filter's queue.
ReceiveImu ==
  /\ status = "running" /\ n_imu < MaxImu
  /\ n_imu' = n_imu + 1
  /\ smoother_imu_queue_' = QueuePush(smoother_imu_queue_, n_imu + 1)
  /\ filter_imu_queue_' = QueuePush(filter_imu_queue_, n_imu + 1)
  /\ UNCHANGED <<is_shutdown_, raw_stereo_queue_, smoother_vo_queue_, filter_vo_queue_,
                 n_stereo, pc, elapsed, smoother_mode,
                 smoother_result_, trigger_sync_filter_, iter_result, stage, cb_next,
                 cb_last, filter_sync, filter_result, filter_cb_next, filter_cb_last, flag_set_since_commit, buf, consumed,
                 polls_after_stop>>
  /\ UNCHANGED <<next_kf_id_, status, smootherRest, callbackVars, auxVars>>

\* ------------------------------------------------------------ worker loops
\* The top of a loop iteration: return if the stop flag is set, else start the
\* wait for the worker's queue. The filter first checks the resync flag: if
\* set, it clears it (one atomic exchange) and goes on to resynchronise.
WorkerTop(w) ==
  /\ status = "running" /\ pc[w] = "top"
  /\ IF is_shutdown_
     THEN /\ pc' = [pc EXCEPT ![w] = "done"]
          /\ UNCHANGED <<elapsed, trigger_sync_filter_>>
     ELSE IF w = "filter" /\ trigger_sync_filter_
     THEN /\ trigger_sync_filter_' = FALSE
          /\ pc' = [pc EXCEPT ![w] = "resync"]
          /\ UNCHANGED elapsed
     ELSE /\ pc' = [pc EXCEPT ![w] = "wait"]
          /\ elapsed' = [elapsed EXCEPT ![w] = BigZero]
          /\ UNCHANGED trigger_sync_filter_
  /\ UNCHANGED <<filter_sync, filter_result, filter_cb_next, filter_cb_last>>
  /\ UNCHANGED <<is_shutdown_, raw_stereo_queue_, smoother_vo_queue_, filter_vo_queue_,
                 smoother_imu_queue_, filter_imu_queue_, n_stereo, n_imu, smoother_mode, smoother_result_, iter_result, stage, cb_next, cb_last,
                 flag_set_since_commit, buf, consumed, polls_after_stop>>
  /\ UNCHANGED <<next_kf_id_, status, smootherRest, callbackVars, auxVars>>

\* The loop condition of WaitForResultOrTimeout holds: the worker begins a
\* sleep of ms_each_wait.
WorkerPoll(w) ==
  /\ status = "running" /\ pc[w] = "wait"
  /\ WaitSleeps(WaitQueue(w), elapsed[w], WaitTimeout(w))
  /\ pc' = [pc EXCEPT ![w] = "sleep"]
  /\ polls_after_stop' = [polls_after_stop EXCEPT ![w] = IF is_shutdown_ THEN @ + 1 ELSE @]
  /\ UNCHANGED elapsed
  /\ UNCHANGED <<is_shutdown_, raw_stereo_queue_, smoother_vo_queue_, filter_vo_queue_,
                 smoother_imu_queue_, filter_imu_queue_, n_stereo, n_imu, smoother_mode, smoother_result_, trigger_sync_filter_, iter_result, stage,
                 cb_next, cb_last, filter_sync, filter_result, filter_cb_next, filter_cb_last, flag_set_since_commit, buf, consumed>>
  /\ UNCHANGED <<next_kf_id_, status, smootherRest, callbackVars, auxVars>>

\* The sleep is over: the interval is added to elapsed, and the loop condition
\* is next.
WorkerWake(w) ==
  /\ status = "running" /\ pc[w] = "sleep"
  /\ elapsed' = [elapsed EXCEPT ![w] = ElapsedAfterSleep(@, WaitTimeout(w))]
  /\ pc' = [pc EXCEPT ![w] = "wait"]
  /\ UNCHANGED <<is_shutdown_, raw_stereo_queue_, smoother_vo_queue_, filter_vo_queue_,
                 smoother_imu_queue_, filter_imu_queue_, n_stereo, n_imu, smoother_mode, smoother_result_, trigger_sync_filter_, iter_result, stage,
                 cb_next, cb_last, filter_sync, filter_result, filter_cb_next, filter_cb_last, flag_set_since_commit, buf, consumed,
                 polls_after_stop>>
  /\ UNCHANGED <<next_kf_id_, status, smootherRest, callbackVars, auxVars>>

\* StereoFrontendLoop, its wait over: on arrival, track the frame and push the
\* odometry result on the smoother's and the filter's queue.
FrontendProcess ==
  /\ status = "running" /\ pc["frontend"] = "wait" /\ WaitOver("frontend")
  /\ pc' = [pc EXCEPT !["frontend"] = "top"]
  /\ elapsed' = [elapsed EXCEPT !["frontend"] = BigZero]
  /\ IF DidTimeout("frontend")
     THEN UNCHANGED <<raw_stereo_queue_, smoother_vo_queue_, filter_vo_queue_, consumed>>
     ELSE \E is_keyframe \in BOOLEAN :
            LET frame == Head(raw_stereo_queue_)
            IN /\ raw_stereo_queue_' = Tail(raw_stereo_queue_)
               /\ consumed' = consumed \cup ({frame} \cap buf.awaited)
               /\ smoother_vo_queue_' =
                    QueuePush(smoother_vo_queue_, OdometryResult(frame, is_keyframe))
               /\ filter_vo_queue_' =
                    QueuePush(filter_vo_queue_, OdometryResult(frame, is_keyframe))
  /\ UNCHANGED <<is_shutdown_, smoother_imu_queue_, filter_imu_queue_, n_stereo, n_imu,
                 smoother_mode, smoother_result_, trigger_sync_filter_,
                 iter_result, stage, cb_next, cb_last, filter_sync, filter_result, filter_cb_next, filter_cb_last, flag_set_since_commit,
                 buf, polls_after_stop>>
  /\ UNCHANGED <<next_kf_id_, status, smootherRest, callbackVars, auxVars>>

\* CHECK(pim_result.Valid()) of UpdateGraphNoVision.
NoVisionUpdateFatal(pim_valid) == ~pim_valid

\* No odometry and no valid preintegration while vision is already unavailable.
NoMotionSourceFatal(mode, pim_valid) == mode = "VISION_UNAVAILABLE" /\ ~pim_valid

CallbackAtReversed(callbacks, k) == callbacks[Len(callbacks) + 1 - k]

\* The k-th callback a worker invokes for a result: the k-th registered.
CallbackAt(callbacks, k) == callbacks[k]

\* The steps that end a smoother iteration with a result, in their order.
SmootherPublishOrderCallbacksFirst == <<"callbacks", "commit", "flag">>

SmootherPublishOrderFlagFirst == <<"flag", "commit", "callbacks">>

SmootherPublishOrder == <<"commit", "flag", "callbacks">>

\* SmootherLoop, its wait over. A keyframe: update with vision. A timeout or
\* a frame that is no keyframe: update with the IMU alone. Either way the IMU
\* samples buffered for the smoother are gathered, and a new keypose id is
\* allocated for the update.
SmootherProcess ==
  /\ status = "running" /\ pc["smoother"] = "wait" /\ WaitOver("smoother")
  /\ LET arrived == ~DidTimeout("smoother")
         keyframe == arrived /\ Head(smoother_vo_queue_).is_keyframe
         pim_valid == ~QueueEmpty(smoother_imu_queue_)
         fatal == /\ ~keyframe
                  /\ \/ NoMotionSourceFatal(smoother_mode, pim_valid)
                     \/ NoVisionUpdateFatal(pim_valid)
         alloc == GetNextKeyposeId(next_kf_id_)
     IN /\ smoother_vo_queue_' =
             IF arrived THEN Tail(smoother_vo_queue_) ELSE smoother_vo_queue_
        /\ IF fatal
           THEN /\ status' = "fatal"
                /\ UNCHANGED <<next_kf_id_, smoother_imu_queue_, consumed, iter_result,
                               smoother_mode, pc, stage, elapsed>>
           ELSE /\ status' = "running"
                /\ next_kf_id_' = alloc.next
                /\ iter_result' = alloc.id
                /\ smoother_imu_queue_' = <<>>
                /\ UNCHANGED consumed
                /\ smoother_mode' =
                     IF keyframe THEN "VISION_AVAILABLE" ELSE "VISION_UNAVAILABLE"
                /\ pc' = [pc EXCEPT !["smoother"] = "publish"]
                /\ elapsed' = [elapsed EXCEPT !["smoother"] = BigZero]
                /\ stage' = 1
  /\ UNCHANGED <<is_shutdown_, raw_stereo_queue_, filter_vo_queue_, filter_imu_queue_,
                 n_stereo, n_imu, smoother_result_,
                 trigger_sync_filter_, cb_next, cb_last, filter_sync, filter_result, filter_cb_next, filter_cb_last,
                 flag_set_since_commit, buf, polls_after_stop>>
  /\ UNCHANGED <<smootherRest, callbackVars, auxVars>>

\* One step of the end of a smoother iteration: the commit of the result under
\* mutex_smoother_result_, the setting of trigger_sync_filter_, or the call of
\* the next registered callback with the result.
SmootherPublish ==
  /\ status = "running" /\ pc["smoother"] = "publish"
  /\ LET step == SmootherPublishOrder[stage]
         last_step == stage = Len(SmootherPublishOrder)
         invokes == step = "callbacks" /\ cb_next <= Len(smoother_result_callbacks_)
         step_done == step # "callbacks" \/ cb_next >= Len(smoother_result_callbacks_)
     IN /\ smoother_result_' = IF step = "commit" THEN iter_result ELSE smoother_result_
        /\ trigger_sync_filter_' = IF step = "flag" THEN TRUE ELSE trigger_sync_filter_
        /\ flag_set_since_commit' =
             CASE step = "commit" -> FALSE
               [] step = "flag" -> TRUE
               [] OTHER -> flag_set_since_commit
        /\ cb_last' =
             IF invokes
             THEN [cb |-> CallbackAt(smoother_result_callbacks_, cb_next), r |-> iter_result,
                   committed |-> smoother_result_,
                   flag_set |-> flag_set_since_commit]
             ELSE cb_last
        /\ cb_next' =
             IF step = "callbacks" THEN (IF step_done THEN 1 ELSE cb_next + 1) ELSE cb_next
        /\ stage' = IF ~step_done THEN stage ELSE IF last_step THEN 1 ELSE stage + 1
        /\ pc' = [pc EXCEPT !["smoother"] = IF step_done /\ last_step THEN "top" ELSE @]
  /\ UNCHANGED <<is_shutdown_, raw_stereo_queue_, smoother_vo_queue_, filter_vo_queue_,
                 smoother_imu_queue_, filter_imu_queue_, n_stereo, n_imu, elapsed, smoother_mode, iter_result, filter_sync, filter_result, filter_cb_next, filter_cb_last, buf, consumed, polls_after_stop>>
  /\ UNCHANGED <<next_kf_id_, status, smootherRest, callbackVars, auxVars>>

\* FilterLoop, the flag cleared: restart the filter from the smoother result
\* as committed now (read under mutex_smoother_result_), then start the wait
\* for the next IMU sample.
FilterResync ==
  /\ status = "running" /\ pc["filter"] = "resync"
  /\ filter_sync' = smoother_result_
  /\ pc' = [pc EXCEPT !["filter"] = "wait"]
  /\ elapsed' = [elapsed EXCEPT !["filter"] = BigZero]
  /\ UNCHANGED <<is_shutdown_, raw_stereo_queue_, smoother_vo_queue_, filter_vo_queue_,
                 smoother_imu_queue_, filter_imu_queue_, n_stereo, n_imu, smoother_mode,
                 smoother_result_, trigger_sync_filter_, iter_result, stage, cb_next,
                 cb_last, filter_result, filter_cb_next, filter_cb_last,
                 flag_set_since_commit, buf, consumed, polls_after_stop>>
  /\ UNCHANGED <<next_kf_id_, status, smootherRest, callbackVars, auxVars>>

\* FilterLoop, its wait over: propagate with the next IMU sample, and take the
\* odometry results delivered to the filter.
FilterProcess ==
  /\ status = "running" /\ pc["filter"] = "wait" /\ WaitOver("filter")
  /\ elapsed' = [elapsed EXCEPT !["filter"] = BigZero]
  /\ filter_vo_queue_' = <<>>
  /\ IF DidTimeout("filter")
     THEN /\ pc' = [pc EXCEPT !["filter"] = "top"]
          /\ UNCHANGED <<filter_imu_queue_, consumed, filter_result>>
     ELSE /\ pc' = [pc EXCEPT !["filter"] = "publish"]
          /\ filter_result' = Head(filter_imu_queue_)
          /\ filter_imu_queue_' = Tail(filter_imu_queue_)
          /\ UNCHANGED consumed
  /\ UNCHANGED <<is_shutdown_, raw_stereo_queue_, smoother_vo_queue_, smoother_imu_queue_,
                 n_stereo, n_imu, smoother_mode, smoother_result_,
                 trigger_sync_filter_, iter_result, stage, cb_next, cb_last, filter_sync,
                 filter_cb_next, filter_cb_last, flag_set_since_commit, buf,
                 polls_after_stop>>
  /\ UNCHANGED <<next_kf_id_, status, smootherRest, callbackVars, auxVars>>

\* FilterLoop, a sample propagated: the call of the next registered filter
\* callback with the filter's result.
FilterPublish ==
  /\ status = "running" /\ pc["filter"] = "publish"
  /\ filter_cb_last' =
       IF filter_cb_next <= Len(filter_result_callbacks_)
       THEN [cb |-> CallbackAt(filter_result_callbacks_, filter_cb_next), r |-> filter_result]
       ELSE filter_cb_last
  /\ filter_cb_next' =
       IF filter_cb_next >= Len(filter_result_callbacks_) THEN 1 ELSE filter_cb_next + 1
  /\ pc' = [pc EXCEPT !["filter"] =
                      IF filter_cb_next >= Len(filter_result_callbacks_) THEN "top" ELSE @]
  /\ UNCHANGED <<is_shutdown_, raw_stereo_queue_, smoother_vo_queue_, filter_vo_queue_,
                 smoother_imu_queue_, filter_imu_queue_, n_stereo, n_imu, elapsed,
                 smoother_mode, smoother_result_, trigger_sync_filter_, iter_result, stage,
                 cb_next, cb_last, filter_sync, filter_result,
                 flag_set_since_commit, buf, consumed, polls_after_stop>>
  /\ UNCHANGED <<next_kf_id_, status, smootherRest, callbackVars, auxVars>>

\* ---------------------------------------------------------------- callbacks
\* RegisterSmootherResultCallback(cb): the callback is added at the end of the
\* list. The k-th callback registered is named k.
RegisterSmootherResultCallback ==
  /\ status = "running" /\ Len(smoother_result_callbacks_) < NumCallbacks
  /\ smoother_result_callbacks_' =
       Append(smoother_result_callbacks_, Len(smoother_result_callbacks_) + 1)
  /\ UNCHANGED filter_result_callbacks_
  /\ UNCHANGED <<is_shutdown_, raw_stereo_queue_, smoother_vo_queue_, filter_vo_queue_,
                 smoother_imu_queue_, filter_imu_queue_, n_stereo, n_imu, pc, elapsed,
                 smoother_mode, smoother_result_, trigger_sync_filter_, iter_result, stage,
                 cb_next, cb_last, filter_sync, filter_result, filter_cb_next,
                 filter_cb_last, flag_set_since_commit, buf, consumed, polls_after_stop>>
  /\ UNCHANGED <<next_kf_id_, status, smootherRest, auxVars>>

\* RegisterFilterResultCallback(cb)
RegisterFilterResultCallback ==
  /\ status = "running" /\ Len(filter_result_callbacks_) < NumCallbacks
  /\ filter_result_callbacks_' =
       Append(filter_result_callbacks_, Len(filter_result_callbacks_) + 1)
  /\ UNCHANGED smoother_result_callbacks_
  /\ UNCHANGED <<is_shutdown_, raw_stereo_queue_, smoother_vo_queue_, filter_vo_queue_,
                 smoother_imu_queue_, filter_imu_queue_, n_stereo, n_imu, pc, elapsed,
                 smoother_mode, smoother_result_, trigger_sync_filter_, iter_result, stage,
                 cb_next, cb_last, filter_sync, filter_result, filter_cb_next,
                 filter_cb_last, flag_set_since_commit, buf, consumed, polls_after_stop>>
  /\ UNCHANGED <<next_kf_id_, status, smootherRest, auxVars>>

\* ---------------------------------------------------------------- lifecycle
\* Shutdown: tell the threads to exit.
Shutdown ==
  /\ status = "running" /\ ~is_shutdown_
  /\ is_shutdown_' = TRUE
  /\ UNCHANGED <<raw_stereo_queue_, smoother_vo_queue_, filter_vo_queue_,
                 smoother_imu_queue_, filter_imu_queue_, n_stereo, n_imu, pc, elapsed,
                 smoother_mode, smoother_result_, trigger_sync_filter_,
                 iter_result, stage, cb_next, cb_last, filter_sync, filter_result, filter_cb_next, filter_cb_last, flag_set_since_commit,
                 buf, consumed, polls_after_stop>>
  /\ UNCHANGED <<next_kf_id_, status, smootherRest, callbackVars, auxVars>>

\* BlockUntilFinished can return: every stereo pair it awaits has been
\* dequeued by its consumer, the frontend.
BlockUntilFinishedReady(awaited, dequeued) == awaited \subseteq dequeued

\* BlockUntilFinished is called: "This call blocks until all queued stereo
\* pairs have been processed." It awaits the stereo pairs queued at this moment.
BlockUntilFinishedCall ==
  /\ status = "running" /\ buf.state = "idle"
  /\ buf' = [state |-> "waiting", awaited |-> SeqToSet(raw_stereo_queue_)]
  /\ UNCHANGED <<is_shutdown_, raw_stereo_queue_, smoother_vo_queue_, filter_vo_queue_,
                 smoother_imu_queue_, filter_imu_queue_, n_stereo, n_imu, pc, elapsed,
                 smoother_mode, smoother_result_, trigger_sync_filter_,
                 iter_result, stage, cb_next, cb_last, filter_sync, filter_result, filter_cb_next, filter_cb_last, flag_set_since_commit,
                 consumed, polls_after_stop>>
  /\ UNCHANGED <<next_kf_id_, status, smootherRest, callbackVars, auxVars>>

\* BlockUntilFinished returns.
BlockUntilFinishedReturn ==
  /\ status = "running" /\ buf.state = "waiting"
  /\ BlockUntilFinishedReady(buf.awaited, consumed)
  /\ buf' = [buf EXCEPT !.state = "returned"]
  /\ UNCHANGED <<is_shutdown_, raw_stereo_queue_, smoother_vo_queue_, filter_vo_queue_,
                 smoother_imu_queue_, filter_imu_queue_, n_stereo, n_imu, pc, elapsed,
                 smoother_mode, smoother_result_, trigger_sync_filter_,
                 iter_result, stage, cb_next, cb_last, filter_sync, filter_result, filter_cb_next, filter_cb_last, flag_set_since_commit,
                 consumed, polls_after_stop>>
  /\ UNCHANGED <<next_kf_id_, status, smootherRest, callbackVars, auxVars>>

\* ------------------------------------------------------------ bounded wait
NoWaitHist == [polls |-> 0, nonempty_at_call |-> FALSE, arrived_at |-> -1, arrived_in |-> "none"]

\* No call of WaitForResultOrTimeout on its own is under way.
WaitIdle ==
  /\ w_queue = <<>> /\ w_timeout = 0 /\ w_elapsed = BigZero /\ w_pc = "idle" /\ w_ret = FALSE
  /\ w_hist = NoWaitHist

\* The call: double elapsed = 0; the queue empty or not, any timeout.
WaitCalled ==
  /\ w_queue \in {<<>>, <<1>>}
  /\ w_timeout \in WaitTimeouts
  /\ w_elapsed = BigZero /\ w_pc = "check" /\ w_ret = FALSE
  /\ w_hist = [NoWaitHist EXCEPT !.nonempty_at_call = ~QueueEmpty(w_queue)]

\* while (queue.Empty() && elapsed < timeout_sec) ... return elapsed >= timeout_sec;
WaitCheck ==
  /\ w_pc = "check"
  /\ IF WaitSleeps(w_queue, w_elapsed, w_timeout)
     THEN w_pc' = "sleep" /\ UNCHANGED w_ret
     ELSE w_pc' = "returned" /\ w_ret' = WaitReturns(w_elapsed, w_timeout)
  /\ UNCHANGED <<w_queue, w_timeout, w_elapsed, w_hist>>
  /\ UNCHANGED <<smootherVars, estVars, mesherVars>>

\* sleep_for(milliseconds(ms_each_wait)); elapsed += 1e-3 * ms_each_wait;
WaitSleep ==
  /\ w_pc = "sleep"
  /\ w_elapsed' = ElapsedAfterSleep(w_elapsed, w_timeout)
  /\ w_hist' = [w_hist EXCEPT !.polls = @ + 1]
  /\ w_pc' = "check"
  /\ UNCHANGED <<w_queue, w_timeout, w_ret>>
  /\ UNCHANGED <<smootherVars, estVars, mesherVars>>

\* Another thread pushes an item while the caller waits.
WaitPush ==
  /\ w_pc \in {"check", "sleep"} /\ QueueEmpty(w_queue)
  /\ w_queue' = QueuePush(w_queue, 1)
  /\ w_hist' = [w_hist EXCEPT !.arrived_at = w_hist.polls, !.arrived_in = w_pc]
  /\ UNCHANGED <<w_timeout, w_elapsed, w_pc, w_ret>>
  /\ UNCHANGED <<smootherVars, estVars, mesherVars>>

\* ------------------------------------------------------------- mesher node
Encodings == {"jpg", "png"}

\* What an image decodes to: rows and columns; a failed decode is empty.
ImageSizes == [rows : 0..MaxImageDim, cols : 0..MaxImageDim]

\* vehicle::stereo_image_t: the header, the two encodings, and what
\* DecodeJPG and MaybeConvertToGray make of the two images.
StereoMsgs(seq) ==
  [header : {seq}, enc_left : Encodings, enc_right : Encodings,
   left : ImageSizes, right : ImageSizes]

NoStereoMsg ==
  [header |-> 0, enc_left |-> "none", enc_right |-> "none",
   left |-> [rows |-> 0, cols |-> 0], right |-> [rows |-> 0, cols |-> 0]]

\* image.rows == 0 || image.cols == 0
ImageEmpty(image) == image.rows = 0 \/ image.cols = 0

\* stereo_pair.left_image.rows > params_.mesher_input_height
NeedsDownsize(image) == image.rows > mesher_input_height

\* const double scale_factor = static_cast<double>(params_.mesher_input_height) / height;
\* const cv::Size input_size(static_cast<int>(scale_factor * cols), mesher_input_height)
\* The quotient is rounded to a double, the product again, and the cast drops
\* the fraction.
InputSize(image) ==
  LET scale_factor == DoubleOfRatio(mesher_input_height, image.rows)
  IN [width |-> DoubleToInt(DoubleTimesInt(scale_factor, image.cols)),
      height |-> mesher_input_height]

\* cv::resize(src, dst, dsize, 0, 0, ...) with an empty dsize and no scale
\* factors fails its assertion and throws cv::Exception.
ResizeThrows(dsize) == dsize.width <= 0 \/ dsize.height <= 0

\* What HandleStereo does with a message: how it ends, and whether it publishes.
HandleStereoOutcome(m) ==
  IF m.enc_left # m.enc_right
  THEN [status |-> "fatal", published |-> FALSE]       \* CHECK_EQ
  ELSE IF m.enc_left # "jpg"
  THEN [status |-> "fatal", published |-> FALSE]       \* LOG(FATAL) Unsupported encoding
  ELSE IF ImageEmpty(m.left) \/ ImageEmpty(m.right)
  THEN [status |-> "running", published |-> FALSE]     \* LOG(WARNING); return
  ELSE IF NeedsDownsize(m.left) /\ ResizeThrows(InputSize(m.left))
  THEN [status |-> "threw", published |-> FALSE]
  ELSE [status |-> "running", published |-> TRUE]

\* void HandleStereo(const lcm::ReceiveBuffer*, const std::string&, const stereo_image_t* msg)
HandleStereo ==
  /\ mesher_status = "running" /\ n_msgs < MaxMsgs
  /\ \E m \in StereoMsgs(n_msgs + 1) :
       LET out == HandleStereoOutcome(m)
       IN /\ stereo_msg' = m
          /\ n_msgs' = n_msgs + 1
          /\ mesher_status' = out.status
          /\ mesh_out' = IF out.published THEN Append(mesh_out, m.header) ELSE mesh_out
  /\ UNCHANGED <<smootherVars, estVars, waitVars>>

\* The node after construction, subscribed and spinning.
MesherInit ==
  /\ mesher_status = "running" /\ mesh_out = <<>> /\ n_msgs = 0 /\ stereo_msg = NoStereoMsg

\* ------------------------------------------------ the estimator's behaviours
\* std::atomic_bool is_shutdown_; is declared without an initializer and the
\* constructor is not among the sources: the flag starts with either value.
EstimatorInit ==
  /\ is_shutdown_ \in BOOLEAN
  /\ raw_stereo_queue_ = <<>>
  /\ smoother_vo_queue_ = <<>>
  /\ filter_vo_queue_ = <<>>
  /\ smoother_imu_queue_ = <<>>
  /\ filter_imu_queue_ = <<>>
  /\ n_stereo = 0
  /\ n_imu = 0
  /\ pc = [w \in Workers |-> "top"]
  /\ elapsed = [w \in Workers |-> BigZero]
  /\ smoother_mode = "VISION_AVAILABLE"
  /\ smoother_result_ = -1
  /\ trigger_sync_filter_ = FALSE
  /\ iter_result = -1
  /\ stage = 1
  /\ cb_next = 1
  /\ cb_last = NoCallback
  /\ filter_sync = -1
  /\ filter_result = 0
  /\ filter_cb_next = 1
  /\ filter_cb_last = [cb |-> 0, r |-> 0]
  /\ flag_set_since_commit = FALSE
  /\ buf = [state |-> "idle", awaited |-> NoItems]
  /\ consumed = NoItems
  /\ polls_after_stop = [w \in Workers |-> 0]
  /\ smoother_result_callbacks_ = <<>>
  /\ filter_result_callbacks_ = <<>>

Init == SmootherInit /\ EstimatorInit /\ WaitIdle /\ MesherInit

\* The smoother and the thread that calls its operations.
Next ==
  \/ DoInitialize
  \/ DoUpdateGraphNoVision
  \/ WritesResultLocked
  \/ DoUpdateGraphWithVision
  \/ FinishWrite

Spec == Init /\ [][Next]_vars

\* The smoother, the thread that calls its operations, and a second thread
\* that calls GetResult; Initialize is given one navigation state and the
\* keyframes observe one landmark.
NextReader ==
  \/ DoInitializeOneNavState
  \/ DoUpdateGraphNoVision
  \/ WritesResultLocked
  \/ DoUpdateGraphWithVisionOneLandmark
  \/ FinishWrite
  \/ GetResultBegin
  \/ GetResultReturn

SpecReader == Init /\ [][NextReader]_vars

FrontendTop == WorkerTop("frontend")
SmootherTop == WorkerTop("smoother")
FilterTop == WorkerTop("filter")
FrontendPoll == WorkerPoll("frontend")
SmootherPoll == WorkerPoll("smoother")
FilterPoll == WorkerPoll("filter")
FrontendWake == WorkerWake("frontend")
SmootherWake == WorkerWake("smoother")
FilterWake == WorkerWake("filter")

\* The estimator from its construction to Shutdown: the three workers, the sensor
\* drivers, and the caller of Shutdown.
NextEstimator ==
  \/ ReceiveStereo
  \/ ReceiveImu
  \/ FrontendTop
  \/ FrontendPoll
  \/ FrontendWake
  \/ FrontendProcess
  \/ SmootherTop
  \/ SmootherPoll
  \/ SmootherWake
  \/ SmootherProcess
  \/ SmootherPublish
  \/ FilterTop
  \/ FilterPoll
  \/ FilterWake
  \/ FilterResync
  \/ FilterProcess
  \/ FilterPublish
  \/ Shutdown

SpecEstimator == Init /\ [][NextEstimator]_vars

\* The camera delivers a stereo pair, one of the first MaxFramesCallbacks.
ReceiveStereoFew == n_stereo < MaxFramesCallbacks /\ ReceiveStereo

\* The running estimator and the threads that register callbacks.
NextCallbacks ==
  \/ RegisterSmootherResultCallback
  \/ RegisterFilterResultCallback
  \/ ReceiveStereoFew
  \/ ReceiveImu
  \/ FrontendTop
  \/ FrontendPoll
  \/ FrontendWake
  \/ FrontendProcess
  \/ SmootherTop
  \/ SmootherPoll
  \/ SmootherWake
  \/ SmootherProcess
  \/ SmootherPublish
  \/ FilterTop
  \/ FilterPoll
  \/ FilterWake
  \/ FilterResync
  \/ FilterProcess
  \/ FilterPublish

SpecCallbacks == Init /\ [][NextCallbacks]_vars

\* The running estimator and a caller of BlockUntilFinished.
NextDrain ==
  \/ ReceiveStereo
  \/ ReceiveImu
  \/ FrontendTop
  \/ FrontendPoll
  \/ FrontendWake
  \/ FrontendProcess
  \/ SmootherTop
  \/ SmootherPoll
  \/ SmootherWake
  \/ SmootherProcess
  \/ SmootherPublish
  \/ FilterTop
  \/ FilterPoll
  \/ FilterWake
  \/ FilterResync
  \/ FilterProcess
  \/ FilterPublish
  \/ BlockUntilFinishedCall
  \/ BlockUntilFinishedReturn

\* The thread blocked in BlockUntilFinished is scheduled: when it can return,
\* it does.
SpecDrain ==
  /\ Init
  /\ [][NextDrain]_vars
  /\ WF_vars(BlockUntilFinishedReturn)

\* The mesher node handling the stereo messages it receives.
NextMesher == HandleStereo

SpecMesher == Init /\ [][NextMesher]_vars

\* One call of WaitForResultOrTimeout and a producer. The caller's thread
\* runs on: both of its steps are fair. The producer may never push.
InitWait == SmootherInit /\ EstimatorInit /\ WaitCalled /\ MesherInit

NextWait ==
  \/ WaitCheck
  \/ WaitSleep
  \/ WaitPush

SpecWait ==
  /\ InitWait
  /\ [][NextWait]_vars
  /\ WF_vars(WaitCheck) /\ WF_vars(WaitSleep)


\* =================================================================== claims
Committed == {commit_log[i].r : i \in DOMAIN commit_log}

Updates == {"UpdateGraphWithVision", "UpdateGraphNoVision"}

\* The operation the history describes is over (its result, if any, assigned).
AtRest == pcS = "idle"

\* The result the last operation leaves: being assigned, or assigned.
ResultOfLast == IF pcS \in {"write", "lock"} THEN pending ELSE result_

IsBetween(f, last_id, new_id) ==
  \/ f.type = "vo_between" /\ f.keys = <<Symbol("X", last_id), Symbol("X", new_id)>>
  \/ f.type = "imu" /\ f.keys[1] = Symbol("X", last_id) /\ f.keys[3] = Symbol("X", new_id)

HasType(factors, type) == \E i \in DOMAIN factors : factors[i].type = type

\* C1: every value GetResult returns to a concurrent reader is, field for field,
\* the result one single operation committed (never a mix of two results).
C1_NoTornRead ==
  reader_out # NoCopy =>
    \E r \in Committed \cup {DefaultResult} \cup (IF pcS = "write" THEN {pending} ELSE {}) :
      reader_out = Image(r)

\* C2: the committed keypose ids are 0, 1, 2, ... in commit order: the seed
\* keypose gets 0 and the n-th completed update after it gets n (and with no
\* seed keypose yet, the n-th completed update gets n - 1).
C2_IdsAreConsecutive ==
  \A i \in DOMAIN commit_log :
    LET seeds == {j \in 1..i : commit_log[j].op = "Initialize"}
        seed == CHOOSE j \in seeds : \A k \in seeds : k <= j
    IN commit_log[i].r.keypose_id = IF seeds = {} THEN i - 1 ELSE i - seed

C2_Witness ==
  /\ Len(commit_log) >= 3
  /\ \E i, j \in DOMAIN commit_log :
       /\ commit_log[i].op = "UpdateGraphWithVision"
       /\ commit_log[j].op = "UpdateGraphNoVision"

\* The landmark loop of the last update looked up the factor index of a
\* landmark that has a smart factor and found no entry.
LookupFailed ==
  LmkLoop([sf |-> last.sf_before, nf |-> <<>>, new_to_lmk |-> EmptyMap,
           affected |-> EmptyMap, threw |-> FALSE],
          last.odom.lmk_obs, Symbol("X", last.new_id), last.map_before).threw

\* The last operation is a keyframe update that lmk_to_factor_map_.at() ended
\* with std::out_of_range, in the landmark loop: before the IMU factors, the
\* safety check and the backend update.
LookupThrew == last.op = "UpdateGraphWithVision" /\ last.new_id >= 0 /\ LookupFailed

BelowThreshold(o) == o.disparity < kMinDisparity

\* The number of accepted observations of landmark id in lmk_obs.
AcceptedCount(lmk_obs, id) ==
  Cardinality({i \in DOMAIN lmk_obs :
                 lmk_obs[i].landmark_id = id /\ ~BelowThreshold(lmk_obs[i])})

LmkBookkeeping(sf, lmk_map, id) ==
  [known |-> id \in DOMAIN sf,
   keys |-> IF id \in DOMAIN sf THEN sf[id] ELSE <<>>,
   indexed |-> id \in DOMAIN lmk_map,
   index |-> IF id \in DOMAIN lmk_map THEN lmk_map[id] ELSE -1]

\* The observations of lmk_obs at or above the threshold, in their order.
RECURSIVE AcceptedOf(_)
AcceptedOf(lmk_obs) ==
  IF lmk_obs = <<>> THEN <<>>
  ELSE IF BelowThreshold(Head(lmk_obs)) THEN AcceptedOf(Tail(lmk_obs))
  ELSE <<Head(lmk_obs)>> \o AcceptedOf(Tail(lmk_obs))

RECURSIVE SmartOnly(_)
SmartOnly(factors) ==
  IF factors = <<>> THEN <<>>
  ELSE IF Head(factors).type = "smart" THEN <<Head(factors)>> \o SmartOnly(Tail(factors))
  ELSE SmartOnly(Tail(factors))

\* C5: an observation whose disparity is below the threshold neither creates a
\* smart factor for its landmark nor extends an existing one. Where a keyframe
\* has no accepted observation of that landmark id, the bookkeeping of the id
\* is as it was before the update; and in every keyframe update the smart
\* factors, the new factors and the affected keys are those the accepted
\* observations alone produce.
C5_LowDisparityLeavesLandmark ==
  last.op = "UpdateGraphWithVision" =>
    /\ \A i \in DOMAIN last.odom.lmk_obs :
         LET o == last.odom.lmk_obs[i]
             id == o.landmark_id
         IN (BelowThreshold(o) /\ AcceptedCount(last.odom.lmk_obs, id) = 0) =>
              /\ LmkBookkeeping(stereo_factors_, lmk_to_factor_map_, id)
                   = LmkBookkeeping(last.sf_before, last.map_before, id)
              /\ \A k \in DOMAIN last.new_factors : last.new_factors[k].lmk # id
              /\ id \in DOMAIN last.map_before =>
                   last.map_before[id] \notin DOMAIN last.affected
    /\ last.new_id >= 0 =>
         LET r == LmkLoop([sf |-> last.sf_before, nf |-> <<>>, new_to_lmk |-> EmptyMap,
                           affected |-> EmptyMap, threw |-> FALSE],
                          AcceptedOf(last.odom.lmk_obs), Symbol("X", last.new_id),
                          last.map_before)
         IN /\ stereo_factors_ = r.sf
            /\ SmartOnly(last.new_factors) = r.nf
            /\ last.affected = r.affected

C5_Witness ==
  /\ last.op = "UpdateGraphWithVision" /\ last.submitted /\ AtRest
  /\ \E i \in DOMAIN last.odom.lmk_obs :
       /\ BelowThreshold(last.odom.lmk_obs[i])
       /\ last.odom.lmk_obs[i].landmark_id \in DOMAIN last.sf_before
  /\ \E i \in DOMAIN last.odom.lmk_obs : ~BelowThreshold(last.odom.lmk_obs[i])

\* C6: the seed keypose of a reinitialization gets an id greater than every id
\* allocated before it.
C6_SeedIdAboveEarlierIds ==
  (last.op = "Initialize" /\ last.next_before > 0) => last.new_id >= last.next_before

\* C7: after Initialize the optimizer holds only the seed keypose's variables
\* and their priors, whatever was done before, and both landmark maps are empty.
C7_InitializeReseedsGraph ==
  (last.op = "Initialize" /\ AtRest) =>
    /\ smoother_.values = ValueKeys(last.new_values)
    /\ smoother_.factors = last.new_factors
    /\ stereo_factors_ = EmptyMap
    /\ lmk_to_factor_map_ = EmptyMap

\* C8: after Shutdown has set the stop flag, a worker inside a bounded wait
\* observes the flag and returns without waiting out the remaining timeout:
\* it begins at most one more sleep of the poll interval.
C8_WaitObservesStop == \A w \in Workers : polls_after_stop[w] <= 1

\* C10: whenever a smoother callback runs with result r, r (or a newer result)
\* is already committed as the smoother result, and the resync flag has been
\* set since that commit: commit, then flag, then callbacks.
C10_CommitFlagCallbacks ==
  cb_last # NoCallback => cb_last.committed >= cb_last.r /\ cb_last.flag_set

\* The last callback has run with the second result, after the filter took
\* the first result and cleared the flag.
C10_Witness ==
  /\ cb_last.cb = NumCallbacks /\ cb_last.r = 1 /\ cb_last.committed = 1
  /\ filter_sync = 0

\* C11: the resync flag loses no update. The filter never holds anything
\* newer than the committed result; whenever the flag is clear and the filter's
\* last resync is older than the latest commit, a resync to that commit or a
\* newer one is still to come: the smoother is about to set the flag, or the
\* filter has cleared it and is about to read the result (or the filter has
\* returned after Shutdown). Each resync takes the result committed when the
\* filter reads, so the resyncs are in commit order.
FlagStillToBeSet ==
  /\ pc["smoother"] = "publish"
  /\ \E k \in stage..Len(SmootherPublishOrder) : SmootherPublishOrder[k] = "flag"

C11_ResyncLosesNoUpdate ==
  /\ [](/\ filter_sync <= smoother_result_
        /\ (status = "running" /\ ~trigger_sync_filter_ /\ filter_sync < smoother_result_) =>
             \/ FlagStillToBeSet
             \/ pc["filter"] \in {"resync", "done"})
  /\ [][filter_sync' # filter_sync =>
          filter_sync' = smoother_result_ /\ filter_sync' > filter_sync]_vars

\* Two commits before one check of the flag: the filter, which has not
\* resynchronised before, has cleared the flag and is about to take the
\* second result.
C11_Witness ==
  /\ filter_sync = -1 /\ smoother_result_ = 1
  /\ ~trigger_sync_filter_ /\ pc["filter"] = "resync"

\* C12: every bounded queue holds at most its capacity; a push is never
\* refused; a push stores the new item last and, only when the queue is at
\* capacity, removes the oldest item and no other; a pop removes the oldest
\* item. The items are pushed in ascending order (frame and sample numbers), so
\* the queue in ascending order says the pops are a subsequence of the pushes
\* in the order pushed.
Ascending(q, Key(_)) == \A i, j \in DOMAIN q : i < j => Key(q[i]) < Key(q[j])

SelfKey(x) == x

FrameKey(x) == x.n

PushStep(q, q2, Key(_)) ==
  /\ q2 # <<>>
  /\ q2 = (IF Len(q) >= QueueCap THEN Tail(q) ELSE q) \o <<q2[Len(q2)]>>
  /\ \A i \in DOMAIN q : Key(q[i]) < Key(q2[Len(q2)])

PopStep(q, q2) == \E k \in 1..Len(q) : q2 = SubSeq(q, k + 1, Len(q))

QueueStep(q, q2, Key(_)) == q2 # q => PushStep(q, q2, Key) \/ PopStep(q, q2)

QueueBounded(q, Key(_)) == Len(q) <= QueueCap /\ Ascending(q, Key)

C12_QueuesBoundedFifo ==
  /\ [](/\ QueueBounded(raw_stereo_queue_, SelfKey)
        /\ QueueBounded(smoother_imu_queue_, SelfKey)
        /\ QueueBounded(filter_imu_queue_, SelfKey)
        /\ QueueBounded(smoother_vo_queue_, FrameKey)
        /\ QueueBounded(filter_vo_queue_, FrameKey)
        /\ (status = "running" /\ n_stereo < MaxFrames) => ENABLED ReceiveStereo
        /\ (status = "running" /\ n_imu < MaxImu) => ENABLED ReceiveImu)
  /\ [][/\ QueueStep(raw_stereo_queue_, raw_stereo_queue_', SelfKey)
        /\ QueueStep(smoother_imu_queue_, smoother_imu_queue_', SelfKey)
        /\ QueueStep(filter_imu_queue_, filter_imu_queue_', SelfKey)
        /\ QueueStep(smoother_vo_queue_, smoother_vo_queue_', FrameKey)
        /\ QueueStep(filter_vo_queue_, filter_vo_queue_', FrameKey)
        /\ n_stereo' # n_stereo =>
             PushStep(raw_stereo_queue_, raw_stereo_queue_', SelfKey)
        /\ n_imu' # n_imu =>
             /\ PushStep(smoother_imu_queue_, smoother_imu_queue_', SelfKey)
             /\ PushStep(filter_imu_queue_, filter_imu_queue_', SelfKey)]_vars

\* The third frame was pushed on the full raw queue before the frontend took
\* any: the first frame is gone, the second and third are queued in order.
C12_Witness ==
  /\ raw_stereo_queue_ = <<2, 3>>
  /\ status = "running" /\ next_kf_id_ = 0
  /\ smoother_vo_queue_ = <<>> /\ filter_vo_queue_ = <<>> /\ pc["filter"] = "top"
  /\ pc["smoother"] = "top" /\ ~is_shutdown_

\* C13: for every result a worker produces, each registered callback is
\* invoked exactly once, in registration order, and the worker starts its
\* next iteration (and the smoother commits its next result) only after the
\* last callback: a callback sees the results in commit order.
NextInvocation(before, after) ==
  after # before =>
    IF after.r = before.r
    THEN after.cb = before.cb + 1
    ELSE after.cb = 1 /\ after.r > before.r

\* The invocation is that of the last callback of the list, with result r.
AllInvoked(callbacks, invocation, r) ==
  callbacks = <<>> \/ (invocation.cb = callbacks[Len(callbacks)] /\ invocation.r = r)

C13_CallbacksOncePerResultInOrder ==
  [][/\ NextInvocation([cb |-> cb_last.cb, r |-> cb_last.r],
                       [cb |-> cb_last.cb', r |-> cb_last.r'])
     /\ cb_last' # cb_last => cb_last.r' = smoother_result_
     /\ (pc["smoother"] = "publish" /\ pc["smoother"]' # "publish") =>
          AllInvoked(smoother_result_callbacks_, cb_last', smoother_result_)
     /\ NextInvocation(filter_cb_last, filter_cb_last')
     /\ filter_cb_last' # filter_cb_last => filter_cb_last.r' = filter_result
     /\ (pc["filter"] = "publish" /\ pc["filter"]' # "publish") =>
          AllInvoked(filter_result_callbacks_, filter_cb_last', filter_result)
     /\ smoother_result_' # smoother_result_ => cb_next = 1]_vars

\* Two callbacks of each kind are registered, and both workers have invoked
\* the last of them: the smoother for its second result, the filter for its first.
C13_Witness ==
  /\ Len(smoother_result_callbacks_) = NumCallbacks
  /\ cb_last.cb = NumCallbacks /\ cb_last.r = 1 /\ pc["smoother"] = "wait"
  /\ Len(filter_result_callbacks_) = NumCallbacks
  /\ filter_cb_last.cb = NumCallbacks /\ filter_cb_last.r = 1 /\ pc["filter"] = "wait"

\* An update has allocated its keypose id: GetNextKeyposeId was the last call
\* on the counter.
Allocated == last.op \in Updates /\ last.new_id >= 0

\* C14 as stated: NextId returns the counter's value and increments it, and
\* PreviousId called after NextId returned k returns k - 1.
C14_PrevIsLastReturnedMinusOne ==
  Allocated =>
    /\ last.new_id = last.next_before /\ next_kf_id_ = last.next_before + 1
    /\ GetPrevKeyposeId(next_kf_id_) = last.new_id - 1

\* C14 as amended: NextId returns the counter's value and increments it, and
\* PreviousId called after NextId returned k returns k, the last-returned id.
C14_PrevIsLastReturned ==
  Allocated =>
    /\ last.new_id = last.next_before /\ next_kf_id_ = last.next_before + 1
    /\ GetNextKeyposeId(last.next_before) = [id |-> last.new_id, next |-> next_kf_id_]
    /\ GetPrevKeyposeId(next_kf_id_) = last.new_id

\* The second update after the seed keypose has allocated id 2.
C14_Witness == Allocated /\ last.new_id = 2 /\ next_kf_id_ = 3

\* C15: when a worker's wait ends, WaitForResultOrTimeout returns true exactly
\* when the queue is non-empty (an item arrived before the timeout), and false
\* exactly when the timeout elapsed with the queue still empty.
C15_WaitReturnsWhetherItemArrived ==
  \A w \in Workers :
    (status = "running" /\ pc[w] = "wait" /\ WaitOver(w)) =>
      (WaitReturns(elapsed[w], WaitTimeout(w)) <=> ~QueueEmpty(WaitQueue(w)))

\* A step of the smoother that ends its wait: the iteration's update runs.
SmootherIterates ==
  /\ pc["smoother"] = "wait"
  /\ pc["smoother"]' = "publish" \/ status' = "fatal"

SmootherTimedOut == DidTimeout("smoother")

SmootherHasValidImu == ~QueueEmpty(smoother_imu_queue_)

\* C16: an iteration of the smoother whose wait times out while the mode is
\* VISION_AVAILABLE never ends fatal, whatever IMU data is buffered, and leaves
\* the mode VISION_UNAVAILABLE.
C16_TimeoutIsModeTransition ==
  [][(SmootherIterates /\ SmootherTimedOut /\ smoother_mode = "VISION_AVAILABLE") =>
       status' = "running" /\ smoother_mode' = "VISION_UNAVAILABLE"]_vars

\* The smoother's step dequeues an odometry result that is a keyframe.
ConsumesKeyframe ==
  /\ smoother_vo_queue_ # <<>>
  /\ smoother_vo_queue_' = Tail(smoother_vo_queue_)
  /\ Head(smoother_vo_queue_).is_keyframe

\* The timeout that belongs to the mode the smoother is in.
TimeoutOfMode ==
  IF smoother_mode = "VISION_AVAILABLE" THEN WaitVisionAvailableMs ELSE WaitVisionUnavailableMs

\* C17: the mode is one of two; it does not change during a wait; an iteration
\* that completes leaves it VISION_AVAILABLE when it consumed a keyframe and
\* VISION_UNAVAILABLE otherwise (timeout, or a result that is no keyframe); and
\* the wait of an iteration goes on sleeping only below the timeout of the mode
\* the iteration started in, and ends without a result only once that timeout
\* is reached: the long one in VISION_AVAILABLE, the short one otherwise.
C17_ModeMachineAndTimeout ==
  /\ [](smoother_mode \in {"VISION_AVAILABLE", "VISION_UNAVAILABLE"})
  /\ [][/\ pc["smoother"] \in {"wait", "sleep"} /\ pc["smoother"]' \in {"wait", "sleep"} =>
             smoother_mode' = smoother_mode
        /\ (SmootherIterates /\ status' = "running") =>
             smoother_mode' = IF ConsumesKeyframe THEN "VISION_AVAILABLE"
                              ELSE "VISION_UNAVAILABLE"
        /\ (pc["smoother"] = "wait" /\ pc["smoother"]' = "sleep") =>
             DoubleLess(elapsed["smoother"], TimeoutSec[TimeoutOfMode])
        /\ (SmootherIterates /\ smoother_vo_queue_ = <<>>) =>
             /\ ~DoubleLess(elapsed["smoother"], TimeoutSec[TimeoutOfMode])
             /\ DoubleLess(elapsed["smoother"],
                           ElapsedAfterSleep(TimeoutSec[TimeoutOfMode], TimeoutOfMode))]_vars

\* C17 witness: after iterations that committed results, the last of them
\* without a keyframe, the smoother has waited the short timeout in
\* VISION_UNAVAILABLE with no odometry result in its queue.
C17_Witness ==
  /\ status = "running" /\ pc["smoother"] = "wait"
  /\ smoother_mode = "VISION_UNAVAILABLE"
  /\ smoother_vo_queue_ = <<>>
  /\ WaitReturns(elapsed["smoother"], WaitVisionUnavailableMs)
  /\ smoother_result_ >= 2

\* C18: UpdateGraphNoVision with an invalid preintegration result ends fatal
\* with no keypose id allocated, nothing submitted to the backend and the
\* committed result as it was; with a valid one it allocates exactly one id,
\* submits the IMU factor between the previous and the new keypose together
\* with the new pose initialised from the IMU prediction, and commits a result
\* with the new id, the preintegration's end time and the has-IMU-state flag set.
\* (The previous keypose is that of Initialize or of an update after it. The
\* result is committed under result_lock_: until the update has the lock the
\* committed result is the previous one, and it leaves the lock only by
\* committing the result it computed.)
C18_AfterNoVisionUpdate ==
  (last.op = "UpdateGraphNoVision" /\ initialized) =>
    IF ~last.pim_valid
    THEN /\ status = "fatal"
         /\ last.new_id = -1 /\ next_kf_id_ = last.next_before
         /\ ~last.submitted /\ last.new_factors = <<>> /\ last.new_values = <<>>
         /\ smoother_ = last.isam_before
         /\ AtRest /\ result_ = last.result_before
         /\ commit_log[Len(commit_log)].r = last.result_before
    ELSE /\ status = "running"
         /\ last.new_id = last.next_before /\ next_kf_id_ = last.next_before + 1
         /\ last.submitted
         /\ \E i \in DOMAIN last.new_factors :
              /\ last.new_factors[i].type = "imu"
              /\ IsBetween(last.new_factors[i], last.result_before.keypose_id, last.new_id)
         /\ \E i \in DOMAIN last.new_values :
              last.new_values[i] = Value(Symbol("X", last.new_id), "imu_pred")
         /\ smoother_.factors = last.isam_before.factors \o last.new_factors
         /\ ValueKeys(last.new_values) \subseteq smoother_.values
         /\ ResultOfLast.keypose_id = last.new_id
         /\ ResultOfLast.has_imu_state
         /\ IF AtRest
            THEN commit_log[Len(commit_log)] = [op |-> "UpdateGraphNoVision", r |-> result_]
            ELSE pcS = "lock" /\ result_ = last.result_before

C18_NoVisionUpdate ==
  /\ []C18_AfterNoVisionUpdate
  /\ [][\A t \in Times :
          (initialized /\ UpdateGraphNoVision(Pim(TRUE, t))) =>
            pending' = [pending' EXCEPT !.timestamp = t, !.keypose_id = next_kf_id_]]_vars
  /\ [][(pcS = "lock" /\ pcS' # "lock") =>
          /\ pcS' = "idle" /\ result_' = pending
          /\ commit_log' = Append(commit_log, [op |-> "UpdateGraphNoVision", r |-> pending])]_vars

\* C18 witness: an IMU-only update with a valid preintegration has committed
\* its result on top of a keypose that had no velocity and bias state.
C18_Witness ==
  /\ last.op = "UpdateGraphNoVision" /\ last.pim_valid /\ status = "running" /\ initialized
  /\ AtRest /\ ~last.result_before.has_imu_state
  /\ result_.keypose_id = last.new_id /\ result_.has_imu_state

\* Velocity and bias variables exist in the graph for keypose id.
HasImuVariables(isam, id) ==
  Symbol("V", id) \in isam.values /\ Symbol("B", id) \in isam.values

\* The batch holds zero-velocity and zero-bias values, and a prior on each,
\* for keypose id.
SeedsZeroState(new_values, new_factors, id) ==
  /\ \E i \in DOMAIN new_values : new_values[i] = Value(Symbol("V", id), "zero")
  /\ \E i \in DOMAIN new_values : new_values[i] = Value(Symbol("B", id), "zero")
  /\ \E i \in DOMAIN new_factors : new_factors[i] = PriorFactor(Symbol("V", id))
  /\ \E i \in DOMAIN new_factors : new_factors[i] = PriorFactor(Symbol("B", id))

\* The batch holds a value or a prior for the velocity or bias of keypose id.
TouchesImuState(new_values, new_factors, id) ==
  \/ \E i \in DOMAIN new_values : new_values[i].key \in {Symbol("V", id), Symbol("B", id)}
  \/ \E i \in DOMAIN new_factors :
       /\ new_factors[i].type = "prior"
       /\ new_factors[i].keys[1] \in {Symbol("V", id), Symbol("B", id)}

\* C19: after every Initialize and every completed update the has-IMU-state flag
\* of the committed result is true exactly when velocity and bias variables
\* exist in the graph for that result's keypose id; and an update whose batch
\* holds an IMU factor holds, in that same batch, zero velocity and bias values
\* and priors for the previous keypose exactly when the previous committed
\* result's flag is false.
C19_FlagIffImuVariables ==
  /\ (AtRest /\ (last.op = "Initialize" \/ (last.op \in Updates /\ status = "running"))) =>
       (result_.has_imu_state <=> HasImuVariables(smoother_, result_.keypose_id))
  /\ (last.op \in Updates /\ HasType(last.new_factors, "imu")) =>
       LET prev == last.result_before IN
       IF prev.has_imu_state
       THEN ~TouchesImuState(last.new_values, last.new_factors, prev.keypose_id)
       ELSE SeedsZeroState(last.new_values, last.new_factors, prev.keypose_id)

\* C19, completed operations only: the same with Initialize counted only when
\* its backend update went through.
C19_FlagIffImuVariablesWhenRunning ==
  /\ (AtRest /\ status = "running" /\ last.op \in Updates \cup {"Initialize"}) =>
       (result_.has_imu_state <=> HasImuVariables(smoother_, result_.keypose_id))
  /\ (last.op \in Updates /\ HasType(last.new_factors, "imu")) =>
       LET prev == last.result_before IN
       IF prev.has_imu_state
       THEN ~TouchesImuState(last.new_values, last.new_factors, prev.keypose_id)
       ELSE SeedsZeroState(last.new_values, last.new_factors, prev.keypose_id)

\* The positions of the smart factors of landmark id among factors.
SmartFactorsOf(factors, id) ==
  {i \in DOMAIN factors : factors[i].type = "smart" /\ factors[i].lmk = id}

Repeat(key, n) == [i \in 1..n |-> key]

\* A landmark without a smart factor is observed more than once, accepted, by
\* the keyframe of the last update.
NewIdTwice ==
  \E id \in LmkIds :
    id \notin DOMAIN last.sf_before /\ AcceptedCount(last.odom.lmk_obs, id) >= 2

\* What the accepted observations of the last keyframe did: of each landmark,
\* the first one of an id without a factor creates the factor, observing the
\* new keypose, and adds it to the batch once; every other one adds no factor
\* and extends the factor of its id with the new keypose key, marking a factor
\* the backend holds as affected.
AcceptedObservationsIngested ==
  \A id \in LmkIds :
    LET n == AcceptedCount(last.odom.lmk_obs, id)
        key == Symbol("X", last.new_id)
        known == id \in DOMAIN last.sf_before
        before == IF known THEN last.sf_before[id] ELSE <<>>
    IN n > 0 =>
         /\ id \in DOMAIN stereo_factors_
         /\ stereo_factors_[id] = before \o Repeat(key, n)
         /\ Cardinality(SmartFactorsOf(last.new_factors, id)) = IF known THEN 0 ELSE 1
         /\ known => /\ id \in DOMAIN last.map_before
                     /\ last.map_before[id] \in DOMAIN last.affected
                     /\ key \in last.affected[last.map_before[id]]
                     /\ lmk_to_factor_map_[id] = last.map_before[id]

\* C20: the graph holds at most one smart factor per landmark id, the one
\* lmk_to_factor_map_ points to. In a keyframe update that is submitted, or
\* that a failed lookup of a factor index ends, the first accepted observation of an id
\* (disparity at or above the threshold) creates the factor, observing the new
\* keypose, and adds it to the batch once; every later accepted observation of
\* that id, in the same keyframe or a later one, adds none and extends the
\* factor with the new keypose key; and this is so whether or not the odometry
\* was aligned with the last keypose.
C20_OneSmartFactorPerLandmark ==
  /\ \A id \in LmkIds : Cardinality(SmartFactorsOf(smoother_.factors, id)) <= 1
  /\ (status = "running" /\ AtRest) =>
       \A id \in DOMAIN lmk_to_factor_map_ :
         SmartFactorsOf(smoother_.factors, id) = {lmk_to_factor_map_[id] + 1}
  /\ (/\ last.op = "UpdateGraphWithVision" /\ last.new_id >= 0
      /\ (last.submitted \/ LookupFailed)) => AcceptedObservationsIngested

\* C20 but for a landmark observed twice by the keyframe that brings it in:
\* in every other update that is submitted the accepted observations are
\* ingested as C20 says, a landmark with a factor observed twice included.
C20_IngestedUnlessNewIdTwice ==
  /\ (last.op = "UpdateGraphWithVision" /\ last.submitted) => AcceptedObservationsIngested
  /\ (last.op = "UpdateGraphWithVision" /\ last.new_id >= 0) => (LookupFailed <=> NewIdTwice)

\* C21: a bounded wait blocks for at most the timeout. The call returns without
\* a sleep when the queue is non-empty at the call; a sleep begins only with
\* the time waited (the sleeps so far, each of one poll interval) below the
\* timeout; the time waited stays below the timeout plus one poll interval;
\* and an item that arrives during the wait is noticed within one poll
\* interval: no sleep starts after it, and the call returns with at most one
\* interval more waited.
C21_WaitBounded ==
  w_pc # "idle" =>
    LET poll == MsEachWait(w_timeout)
        waited == w_hist.polls * poll
    IN /\ w_hist.nonempty_at_call => w_hist.polls = 0 /\ w_pc # "sleep"
       /\ w_pc = "sleep" => waited < w_timeout
       /\ poll > 0 /\ waited < w_timeout + poll
       /\ (w_pc = "sleep" /\ w_hist.arrived_at >= 0) =>
            w_hist.arrived_in = "sleep" /\ w_hist.polls = w_hist.arrived_at
       /\ (w_pc = "returned" /\ w_hist.arrived_at >= 0) =>
            w_hist.polls <= w_hist.arrived_at + 1

\* The keys a factor of a batch refers to: its own, and for a smart factor the
\* keyposes its landmark is observed from.
FactorKeys(f, sf) ==
  IF f.type = "smart"
  THEN (IF f.lmk \in DOMAIN sf THEN SeqToSet(sf[f.lmk]) ELSE {})
  ELSE SeqToSet(f.keys)

\* A batch (new_values, new_factors) is well formed for the graph isam.
WellFormedBatch(new_values, new_factors, isam, sf) ==
  /\ ValueKeys(new_values) \cap isam.values = {}
  /\ \A i, j \in DOMAIN new_values : new_values[i].key = new_values[j].key => i = j
  /\ \A i \in DOMAIN new_factors :
       FactorKeys(new_factors[i], sf) \subseteq isam.values \cup ValueKeys(new_values)

\* The initial values the batch gives to the pose of keypose id.
PoseValues(new_values, id) ==
  {i \in DOMAIN new_values : new_values[i].key = Symbol("X", id)}

\* The batch of the last operation, if it submitted one, was well formed, and
\* gave the new keypose's pose one initial value from the expected source.
LastBatchWellFormed ==
  /\ WellFormedBatch(last.new_values, last.new_factors, last.isam_before, stereo_factors_)
  /\ Cardinality(PoseValues(last.new_values, last.new_id)) = 1
  /\ \A i \in PoseValues(last.new_values, last.new_id) :
       last.new_values[i].src =
         (IF last.op = "Initialize" THEN "init"
          ELSE IF last.vo_aligned THEN "vo" ELSE "imu_pred")

\* C22: every batch submitted to the backend by Initialize, UpdateGraphWithVision
\* or UpdateGraphNoVision, after any sequence of these operations, a repeated
\* Initialize included, is well formed: no key of its new values is in the
\* graph already, none is inserted twice, the new keypose's pose gets exactly
\* one initial value (from visual odometry when aligned, else from the IMU
\* prediction), and every key a new factor refers to is in the graph or in the
\* batch.
C22_BatchesWellFormed ==
  (last.op \in Updates \cup {"Initialize"} /\ last.submitted) => LastBatchWellFormed

\* C22 apart from reinitialization: the same for the batches of the first
\* Initialize and of the updates.
C22_BatchesWellFormedButReinitialize ==
  (/\ last.op \in Updates \cup {"Initialize"} /\ last.submitted
   /\ last.op = "Initialize" => last.isam_before.values = {}) => LastBatchWellFormed

\* C23: after Initialize and after every completed UpdateGraphWithVision the
\* landmark ids with a smart factor are the landmark ids with a backend factor
\* index; and in an update every lookup of the index of a landmark that has a
\* factor finds an entry, also when a landmark id occurs more than once among
\* the observations of the keyframe.
C23_LandmarkMapsAgree ==
  /\ (AtRest /\ status = "running" /\ last.op \in {"Initialize", "UpdateGraphWithVision"}) =>
       DOMAIN stereo_factors_ = DOMAIN lmk_to_factor_map_
  /\ (last.op = "UpdateGraphWithVision" /\ last.new_id >= 0) => ~LookupFailed

DistinctIds(s) == \A i, j \in DOMAIN s : i # j => s[i].landmark_id # s[j].landmark_id

\* C23 for keyframes that observe each landmark once: a lookup never fails.
C23_LookupFindsEntryDistinctIds ==
  (last.op = "UpdateGraphWithVision" /\ last.new_id >= 0 /\ DistinctIds(last.odom.lmk_obs)) =>
    ~LookupFailed

\* The last message was handled with the mesh published once, under its header.
PublishedOnce ==
  /\ mesh_out # <<>> /\ mesh_out[Len(mesh_out)] = stereo_msg.header
  /\ \A i, j \in DOMAIN mesh_out : mesh_out[i] = mesh_out[j] => i = j

\* The last message was handled with nothing published.
PublishedNothing == \A i \in DOMAIN mesh_out : mesh_out[i] # stereo_msg.header

\* C24: HandleStereo publishes exactly one mesh message, with the header of the
\* incoming one, for each message of encoding "jpg" whose images both decode
\* to non-empty images; it publishes nothing and keeps running when an image
\* fails to decode; and a message whose encoding is not "jpg", or whose two
\* encodings differ, ends fatal with nothing published.
C24_HandleStereoPublishes ==
  n_msgs > 0 =>
    LET m == stereo_msg
        jpg == m.enc_left = "jpg" /\ m.enc_right = "jpg"
    IN /\ (jpg /\ ~ImageEmpty(m.left) /\ ~ImageEmpty(m.right)) =>
            mesher_status = "running" /\ PublishedOnce
       /\ (jpg /\ (ImageEmpty(m.left) \/ ImageEmpty(m.right))) =>
            mesher_status = "running" /\ PublishedNothing
       /\ ~jpg => mesher_status = "fatal" /\ PublishedNothing

\* C24 for images that keep a column when downsized: the same, the first case
\* limited to left images whose downsized width is at least one.
C24_HandleStereoPublishesIfWidthKept ==
  n_msgs > 0 =>
    LET m == stereo_msg
        jpg == m.enc_left = "jpg" /\ m.enc_right = "jpg"
    IN /\ (/\ jpg /\ ~ImageEmpty(m.left) /\ ~ImageEmpty(m.right)
           /\ NeedsDownsize(m.left) => InputSize(m.left).width >= 1) =>
            mesher_status = "running" /\ PublishedOnce
       /\ (jpg /\ (ImageEmpty(m.left) \/ ImageEmpty(m.right))) =>
            mesher_status = "running" /\ PublishedNothing
       /\ ~jpg => mesher_status = "fatal" /\ PublishedNothing

====
